---- MODULE Spec2Model ----
(***************************************************************************)
(* SkillAssessGPT: the generation / validation round trip.                 *)
(*                                                                         *)
(* The model follows src/src/generator.py, src/src/critic.py,              *)
(* src/src/models.py and src/src/main.py.  A response text is a sequence   *)
(* of atoms: a character Ch(c), or Js(d), the text of one JSON document d. *)
(* An exception message is a sequence of string tokens; str(e) of an       *)
(* exception is its message.  Python's None is the record None.            *)
(***************************************************************************)
EXTENDS Integers, Sequences, FiniteSets, TLC

\* ------------------------------------------------------------------ bounds
\* max_retries of an agent ranges over 0..MaxRetriesBound
MaxRetriesBound == 4

\* the criteria lists handed to the grid on its own have 0..MaxCriteria items
MaxCriteria == 4

\* ------------------------------------------------------- program constants
DefaultMaxRetries == 3
DefaultInitialRetryDelay == 1
FinishReasonStop == 1

\* ------------------------------------------------------------ basic values
None == [none |-> TRUE]

IsNone(v) == "none" \in DOMAIN v

Ok(v) == [ok |-> TRUE, val |-> v]

Raise(type, msg) == [ok |-> FALSE, type |-> type, msg |-> msg]

\* dict.get(key, default)
Get(d, k, default) == IF k \in DOMAIN d THEN d[k] ELSE default

\* JSON null
JNull == [null |-> TRUE]

IsObject(v) == "null" \notin DOMAIN v

Digit(n) == CASE n = 0 -> "0" [] n = 1 -> "1" [] n = 2 -> "2" [] n = 3 -> "3"
              [] n = 4 -> "4" [] n = 5 -> "5" [] n = 6 -> "6" [] n = 7 -> "7"
              [] n = 8 -> "8" [] n = 9 -> "9"

\* str(n) of a non-negative integer, as the sequence of its decimal digits
RECURSIVE Str(_)
Str(n) == IF n < 10 THEN <<Digit(n)>> ELSE Str(n \div 10) \o <<Digit(n % 10)>>

\* 2 ** n
RECURSIVE Pow2(_)
Pow2(n) == IF n = 0 THEN 1 ELSE 2 * Pow2(n - 1)

\* whether the token sequence part occurs in msg, contiguously
Contains(msg, part) ==
    \E i \in 1..(Len(msg) - Len(part) + 1) :
        SubSeq(msg, i, i + Len(part) - 1) = part

\* whether msg ends with the token sequence part
EndsWithTokens(msg, part) ==
    /\ Len(part) <= Len(msg)
    /\ SubSeq(msg, Len(msg) - Len(part) + 1, Len(msg)) = part

\* ------------------------------------------------------------------- texts
Ch(c) == [c |-> c]

Js(d) == [json |-> d]

IsWhitespace(a) == a \in {Ch(" "), Ch("\n")}

\* str.strip()
RECURSIVE LStrip(_)
LStrip(t) == IF t # <<>> /\ IsWhitespace(Head(t)) THEN LStrip(Tail(t)) ELSE t

RECURSIVE RStrip(_)
RStrip(t) == IF t # <<>> /\ IsWhitespace(t[Len(t)])
             THEN RStrip(SubSeq(t, 1, Len(t) - 1)) ELSE t

Strip(t) == RStrip(LStrip(t))

\* str.startswith / str.endswith
StartsWith(t, p) == Len(p) <= Len(t) /\ SubSeq(t, 1, Len(p)) = p

EndsWith(t, p) == Len(p) <= Len(t) /\ SubSeq(t, Len(t) - Len(p) + 1, Len(t)) = p

\* the backtick character
Backtick == Ch("BACKTICK")

Fence == <<Backtick, Backtick, Backtick>>

FenceJson == Fence \o <<Ch("j"), Ch("s"), Ch("o"), Ch("n")>>

\* content[n:]
DropFirst(t, n) == SubSeq(t, n + 1, Len(t))

\* content[:-n]
DropLast(t, n) == SubSeq(t, 1, Len(t) - n)

\* a stripping that takes the three backticks and leaves the word json
StripFences_TagKept(api_response) ==
    LET c0 == Strip(api_response)
        c2 == IF StartsWith(c0, Fence) THEN DropFirst(c0, Len(Fence)) ELSE c0
        c3 == IF EndsWith(c2, Fence) THEN DropLast(c2, Len(Fence)) ELSE c2
    IN  Strip(c3)

\* a stripping that forgets the fence at the end
StripFences_TrailingKept(api_response) ==
    LET c0 == Strip(api_response)
        c1 == IF StartsWith(c0, FenceJson) THEN DropFirst(c0, Len(FenceJson)) ELSE c0
        c2 == IF StartsWith(c1, Fence) THEN DropFirst(c1, Len(Fence)) ELSE c1
    IN  Strip(c2)

\* the fence stripping of _parse_response and _parse_validation_response
StripFences(api_response) ==
    LET c0 == Strip(api_response)
        c1 == IF StartsWith(c0, FenceJson) THEN DropFirst(c0, Len(FenceJson)) ELSE c0
        c2 == IF StartsWith(c1, Fence) THEN DropFirst(c1, Len(Fence)) ELSE c1
        c3 == IF EndsWith(c2, Fence) THEN DropLast(c2, Len(Fence)) ELSE c2
    IN  Strip(c3)

\* json.loads: the text of exactly one JSON document, surrounding whitespace
\* allowed; anything else is a JSONDecodeError
JsonLoads(content) ==
    LET c == Strip(content)
    IN  IF Len(c) = 1 /\ "json" \in DOMAIN c[1]
        THEN Ok(c[1].json)
        ELSE Raise("JSONDecodeError", <<"<json error>">>)

\* ------------------------------------------------------------- domain model
\* "not s or not s.strip()" of a text field
Blank(s) == s \in {"", " "}

\* the same of a text held as a sequence of tokens
BlankTokens(f) == \A i \in 1..Len(f) : Blank(f[i])

\* a CompetencyInput that does not look at duree
NewCompetencyInput_DureeUnchecked(competency, element, niveau, parcours, specialite, duree) ==
    IF Blank(competency)
    THEN Raise("ValueError", <<"Competency field cannot be empty">>)
    ELSE IF Blank(niveau)
    THEN Raise("ValueError", <<"Niveau field cannot be empty">>)
    ELSE IF Blank(parcours)
    THEN Raise("ValueError", <<"Parcours field cannot be empty">>)
    ELSE IF Blank(specialite)
    THEN Raise("ValueError", <<"Specialite field cannot be empty">>)
    ELSE Ok([competency |-> competency, element |-> element, niveau |-> niveau,
             parcours |-> parcours, specialite |-> specialite, duree |-> duree])

\* CompetencyInput.__post_init__
NewCompetencyInput(competency, element, niveau, parcours, specialite, duree) ==
    IF Blank(competency)
    THEN Raise("ValueError", <<"Competency field cannot be empty">>)
    ELSE IF Blank(niveau)
    THEN Raise("ValueError", <<"Niveau field cannot be empty">>)
    ELSE IF Blank(parcours)
    THEN Raise("ValueError", <<"Parcours field cannot be empty">>)
    ELSE IF Blank(specialite)
    THEN Raise("ValueError", <<"Specialite field cannot be empty">>)
    ELSE IF Blank(duree)
    THEN Raise("ValueError", <<"Duree field cannot be empty">>)
    ELSE Ok([competency |-> competency, element |-> element, niveau |-> niveau,
             parcours |-> parcours, specialite |-> specialite, duree |-> duree])

\* CompetencyInput.from_dict
CompetencyInputFromDict(data) ==
    NewCompetencyInput(Get(data, "competency", ""), Get(data, "element", ""),
                       Get(data, "niveau", ""), Get(data, "parcours", ""),
                       Get(data, "specialite", ""), Get(data, "duree", ""))

\* Criterion.from_dict followed by Criterion.__post_init__
CriterionFromDict(c) ==
    LET description == Get(c, "description", "")
    IN  IF Blank(description)
        THEN Raise("ValueError", <<"Criterion description cannot be empty">>)
        ELSE Ok([description |-> description,
                 indicators |-> Get(c, "indicators", <<>>),
                 points |-> Get(c, "points", 0)])

\* [Criterion.from_dict(c) for c in cs]: the first failure ends the comprehension
RECURSIVE CriteriaFromList(_)
CriteriaFromList(cs) ==
    IF cs = <<>> THEN Ok(<<>>)
    ELSE LET first == CriterionFromDict(Head(cs))
         IN  IF ~first.ok THEN first
             ELSE LET rest == CriteriaFromList(Tail(cs))
                  IN  IF ~rest.ok THEN rest ELSE Ok(<<first.val>> \o rest.val)

\* the least number of criteria of a tier
MinCriteria == 3

\* an APCGrid that does not look at the NA level
NewAPCGrid_NAUnchecked(nd, ni, na) ==
    IF Len(nd) < MinCriteria
    THEN Raise("ValueError", <<"ND level must have at least 3 criteria">>)
    ELSE IF Len(ni) < MinCriteria
    THEN Raise("ValueError", <<"NI level must have at least 3 criteria">>)
    ELSE Ok([nd_criteria |-> nd, ni_criteria |-> ni, na_criteria |-> na])

\* APCGrid.__post_init__
NewAPCGrid(nd, ni, na) ==
    IF Len(nd) < MinCriteria
    THEN Raise("ValueError", <<"ND level must have at least 3 criteria">>)
    ELSE IF Len(ni) < MinCriteria
    THEN Raise("ValueError", <<"NI level must have at least 3 criteria">>)
    ELSE IF Len(na) < MinCriteria
    THEN Raise("ValueError", <<"NA level must have at least 3 criteria">>)
    ELSE Ok([nd_criteria |-> nd, ni_criteria |-> ni, na_criteria |-> na])

\* an APCGrid.from_dict that fills the instance without running __post_init__
APCGridFromDict_Unvalidated(data) ==
    LET nd == CriteriaFromList(Get(data, "nd_criteria", <<>>))
        ni == CriteriaFromList(Get(data, "ni_criteria", <<>>))
        na == CriteriaFromList(Get(data, "na_criteria", <<>>))
    IN  IF ~nd.ok THEN nd
        ELSE IF ~ni.ok THEN ni
        ELSE IF ~na.ok THEN na
        ELSE Ok([nd_criteria |-> nd.val, ni_criteria |-> ni.val,
                 na_criteria |-> na.val])

\* APCGrid.from_dict: the three list comprehensions, then the constructor
APCGridFromDict(data) ==
    LET nd == CriteriaFromList(Get(data, "nd_criteria", <<>>))
        ni == CriteriaFromList(Get(data, "ni_criteria", <<>>))
        na == CriteriaFromList(Get(data, "na_criteria", <<>>))
    IN  IF ~nd.ok THEN nd
        ELSE IF ~ni.ok THEN ni
        ELSE IF ~na.ok THEN na
        ELSE NewAPCGrid(nd.val, ni.val, na.val)

\* EvaluationSituation.__post_init__
NewEvaluationSituation(context, task, instructions, duration) ==
    IF Blank(instructions)
    THEN Raise("ValueError", <<"Instructions field cannot be empty">>)
    ELSE IF Blank(duration)
    THEN Raise("ValueError", <<"Duration field cannot be empty">>)
    ELSE Ok([context |-> context, task |-> task,
             instructions |-> instructions, duration |-> duration])

\* the permitted totals of a rubric
AllowedTotals == {20, 100}

\* a rubric that accepts any total
NewScoringRubric_AnyTotal(total_points, nd_range, ni_range, na_range, criteria_points) ==
    Ok([total_points |-> total_points, nd_range |-> nd_range,
        ni_range |-> ni_range, na_range |-> na_range,
        criteria_points |-> criteria_points])

\* a rubric that takes a criterion of 0 points
NewScoringRubric_ZeroAllowed(total_points, nd_range, ni_range, na_range, criteria_points) ==
    IF total_points \notin AllowedTotals
    THEN Raise("ValueError", <<"Total points must be either 20 or 100">>)
    ELSE IF \E i \in 1..Len(criteria_points) : criteria_points[i].points < 0
    THEN Raise("ValueError", <<"Criterion", "must have points > 0">>)
    ELSE Ok([total_points |-> total_points, nd_range |-> nd_range,
             ni_range |-> ni_range, na_range |-> na_range,
             criteria_points |-> criteria_points])

\* ScoringRubric.__post_init__; criteria_points is the mapping in its
\* iteration order, a sequence of [label, points]
NewScoringRubric(total_points, nd_range, ni_range, na_range, criteria_points) ==
    IF total_points \notin AllowedTotals
    THEN Raise("ValueError", <<"Total points must be either 20 or 100">>)
    ELSE IF \E i \in 1..Len(criteria_points) : criteria_points[i].points <= 0
    THEN LET i == CHOOSE j \in 1..Len(criteria_points) :
                     /\ criteria_points[j].points <= 0
                     /\ \A k \in 1..(j - 1) : criteria_points[k].points > 0
         IN  Raise("ValueError",
                   <<"Criterion", criteria_points[i].label, "must have points > 0">>)
    ELSE Ok([total_points |-> total_points, nd_range |-> nd_range,
             ni_range |-> ni_range, na_range |-> na_range,
             criteria_points |-> criteria_points])

\* a tuple of Python, which equals no list: a JSON list is a plain sequence
TupleValue(items) == [tuple |-> items]

\* list(t) of a tuple
ListOf(t) == t.tuple

\* tuple(v): a JSON list becomes the tuple of its items, null is not iterable
TupleOf(v) ==
    IF v = JNull THEN Raise("TypeError", <<"NoneType object is not iterable">>)
    ELSE Ok(TupleValue(v))

\* ScoringRubric(total_points, tuple(nd_range), tuple(ni_range), tuple(na_range),
\* criteria_points): the arguments are evaluated in order, then the constructor
\* runs
RubricOfTuples(total_points, nd_range, ni_range, na_range, criteria_points) ==
    LET nd == TupleOf(nd_range)
        ni == TupleOf(ni_range)
        na == TupleOf(na_range)
    IN  IF ~nd.ok THEN nd
        ELSE IF ~ni.ok THEN ni
        ELSE IF ~na.ok THEN na
        ELSE NewScoringRubric(total_points, nd.val, ni.val, na.val, criteria_points)

\* a ScoringRubric.from_dict that hands the lists of the mapping to the
\* constructor without tuple()
ScoringRubricFromDict_ListsKept(data) ==
    NewScoringRubric(Get(data, "total_points", 0), Get(data, "nd_range", <<0, 0>>),
                     Get(data, "ni_range", <<0, 0>>), Get(data, "na_range", <<0, 0>>),
                     Get(data, "criteria_points", <<>>))

\* ScoringRubric.from_dict
ScoringRubricFromDict(data) ==
    RubricOfTuples(Get(data, "total_points", 0), Get(data, "nd_range", <<0, 0>>),
                   Get(data, "ni_range", <<0, 0>>), Get(data, "na_range", <<0, 0>>),
                   Get(data, "criteria_points", <<>>))

\* an AssessmentOutput that leaves an unset generated_at unset
NewAssessmentOutput_NoTimestamp(input, grid, situation, rubric, generated_at, now) ==
    [input |-> input, grid |-> grid, situation |-> situation, rubric |-> rubric,
     generated_at |-> generated_at]

\* AssessmentOutput.__post_init__: an unset generated_at becomes now
NewAssessmentOutput(input, grid, situation, rubric, generated_at, now) ==
    [input |-> input, grid |-> grid, situation |-> situation, rubric |-> rubric,
     generated_at |-> IF generated_at = "" THEN now ELSE generated_at]

\* a ValidationResult that takes any feedback
NewValidationResult_AnyFeedback(is_valid, alignment_score, observability_issues, coherence_issues, feedback, validated_at, now) ==
    Ok([is_valid |-> is_valid, alignment_score |-> alignment_score,
        observability_issues |-> observability_issues,
        coherence_issues |-> coherence_issues, feedback |-> feedback,
        validated_at |-> IF validated_at = "" THEN now ELSE validated_at])

\* ValidationResult.__post_init__
NewValidationResult(is_valid, alignment_score, observability_issues, coherence_issues, feedback, validated_at, now) ==
    IF ~is_valid /\ BlankTokens(feedback)
    THEN Raise("ValueError", <<"Feedback must be provided when validation fails">>)
    ELSE Ok([is_valid |-> is_valid, alignment_score |-> alignment_score,
             observability_issues |-> observability_issues,
             coherence_issues |-> coherence_issues, feedback |-> feedback,
             validated_at |-> IF validated_at = "" THEN now ELSE validated_at])

\* ValidationResult.from_dict
ValidationResultFromDict(data, now) ==
    NewValidationResult(Get(data, "is_valid", FALSE), Get(data, "alignment_score", ""),
                        Get(data, "observability_issues", <<>>),
                        Get(data, "coherence_issues", <<>>),
                        Get(data, "feedback", <<>>),
                        Get(data, "validated_at", ""), now)

\* ----------------------------------------------------------- serialisation
\* CompetencyInput.to_dict
CompetencyInputToDict(i) ==
    [competency |-> i.competency, element |-> i.element, niveau |-> i.niveau,
     parcours |-> i.parcours, specialite |-> i.specialite, duree |-> i.duree]

\* Criterion.to_dict
CriterionToDict(c) ==
    [description |-> c.description, indicators |-> c.indicators, points |-> c.points]

\* APCGrid.to_dict
APCGridToDict(g) ==
    [nd_criteria |-> [i \in DOMAIN g.nd_criteria |-> CriterionToDict(g.nd_criteria[i])],
     ni_criteria |-> [i \in DOMAIN g.ni_criteria |-> CriterionToDict(g.ni_criteria[i])],
     na_criteria |-> [i \in DOMAIN g.na_criteria |-> CriterionToDict(g.na_criteria[i])]]

\* EvaluationSituation.to_dict
EvaluationSituationToDict(e) ==
    [context |-> e.context, task |-> e.task, instructions |-> e.instructions,
     duration |-> e.duration]

\* EvaluationSituation.from_dict
EvaluationSituationFromDict(data) ==
    NewEvaluationSituation(Get(data, "context", ""), Get(data, "task", ""),
                           Get(data, "instructions", ""), Get(data, "duration", ""))

\* ScoringRubric.to_dict
ScoringRubricToDict(r) ==
    [total_points |-> r.total_points, nd_range |-> ListOf(r.nd_range),
     ni_range |-> ListOf(r.ni_range), na_range |-> ListOf(r.na_range),
     criteria_points |-> r.criteria_points]

\* AssessmentOutput.to_dict
AssessmentOutputToDict(a) ==
    [input |-> CompetencyInputToDict(a.input), grid |-> APCGridToDict(a.grid),
     situation |-> EvaluationSituationToDict(a.situation),
     rubric |-> ScoringRubricToDict(a.rubric), generated_at |-> a.generated_at]

\* AssessmentOutput.from_dict: the four parts are built in order, the first
\* failure leaves the call
AssessmentOutputFromDict(data, now) ==
    LET input == CompetencyInputFromDict(Get(data, "input", <<>>))
        grid == APCGridFromDict(Get(data, "grid", <<>>))
        situation == EvaluationSituationFromDict(Get(data, "situation", <<>>))
        rubric == ScoringRubricFromDict(Get(data, "rubric", <<>>))
    IN  IF ~input.ok THEN input
        ELSE IF ~grid.ok THEN grid
        ELSE IF ~situation.ok THEN situation
        ELSE IF ~rubric.ok THEN rubric
        ELSE Ok(NewAssessmentOutput(input.val, grid.val, situation.val, rubric.val,
                                    Get(data, "generated_at", ""), now))

\* ValidationResult.to_dict
ValidationResultToDict(v) ==
    [is_valid |-> v.is_valid, alignment_score |-> v.alignment_score,
     observability_issues |-> v.observability_issues,
     coherence_issues |-> v.coherence_issues, feedback |-> v.feedback,
     validated_at |-> v.validated_at]

\* ------------------------------------------------------ the external service
\* the finish_reasons table of _call_api and its default
FinishReasonText(finish_reason) ==
    CASE finish_reason = 2 -> <<"MAX_TOKENS - Response exceeded token limit">>
      [] finish_reason = 3 -> <<"SAFETY - Response blocked by safety filters">>
      [] finish_reason = 4 -> <<"RECITATION - Response blocked due to recitation">>
      [] finish_reason = 5 -> <<"OTHER - Response stopped for other reasons">>
      [] OTHER -> <<"Unknown reason:">> \o Str(finish_reason)

\* a _call_api that does not look at the completion reason
CallApiBody_AnyReason(r) ==
    IF "error" \in DOMAIN r THEN Raise("Exception", r.error)
    ELSE IF r.candidates = <<>>
    THEN Raise("Exception", <<"Response was blocked or empty">>)
    ELSE Ok(r.text)

\* the try body of _call_api: r is what client.generate_content does, either
\* [error |-> msg], an exception of the transport, or a response
\* [candidates |-> <<[finish_reason |-> n], ...>>, text |-> t]
CallApiBody(r) ==
    IF "error" \in DOMAIN r THEN Raise("Exception", r.error)
    ELSE IF r.candidates = <<>>
    THEN Raise("Exception", <<"Response was blocked or empty">>)
    ELSE LET candidate == r.candidates[1]
         IN  IF candidate.finish_reason # FinishReasonStop
             THEN Raise("Exception", <<"Response incomplete:">>
                                     \o FinishReasonText(candidate.finish_reason))
             ELSE Ok(r.text)

\* a _call_api whose except clause lets the exception through as it is
GenCallApi_Unwrapped(r) == CallApiBody(r)

\* GeneratorAgent._call_api
GenCallApi(r) ==
    LET body == CallApiBody(r)
    IN  IF body.ok THEN body
        ELSE Raise("Exception", <<"API request failed:">> \o body.msg)

\* CriticAgent._call_api
CriticCallApi(r) ==
    LET body == CallApiBody(r)
    IN  IF body.ok THEN body
        ELSE Raise("Exception", <<"Validation", "API request failed:">> \o body.msg)

\* -------------------------------------------------------- response parsing
\* the attribute access or membership test of a value that is None
NoneTypeError == Raise("TypeError", <<"NoneType has no such member">>)

\* a grid part that hands the NA list to ni_criteria and the NI list to
\* na_criteria
ParseGrid_TiersSwapped(grid_data) ==
    IF ~IsObject(grid_data) THEN NoneTypeError
    ELSE LET nd == CriteriaFromList(Get(grid_data, "nd_criteria", <<>>))
             ni == CriteriaFromList(Get(grid_data, "ni_criteria", <<>>))
             na == CriteriaFromList(Get(grid_data, "na_criteria", <<>>))
         IN  IF ~nd.ok THEN nd
             ELSE IF ~ni.ok THEN ni
             ELSE IF ~na.ok THEN na
             ELSE NewAPCGrid(nd.val, na.val, ni.val)

\* the grid part of _parse_response
ParseGrid(grid_data) ==
    IF ~IsObject(grid_data) THEN NoneTypeError
    ELSE LET nd == CriteriaFromList(Get(grid_data, "nd_criteria", <<>>))
             ni == CriteriaFromList(Get(grid_data, "ni_criteria", <<>>))
             na == CriteriaFromList(Get(grid_data, "na_criteria", <<>>))
         IN  IF ~nd.ok THEN nd
             ELSE IF ~ni.ok THEN ni
             ELSE IF ~na.ok THEN na
             ELSE NewAPCGrid(nd.val, ni.val, na.val)

\* the situation part of _parse_response
ParseSituation(situation_data, input_data) ==
    IF ~IsObject(situation_data) THEN NoneTypeError
    ELSE NewEvaluationSituation(Get(situation_data, "context", ""),
                                Get(situation_data, "task", ""),
                                Get(situation_data, "instructions", ""),
                                Get(situation_data, "duration", input_data.duree))

\* the rubric part of _parse_response
ParseRubric(rubric_data) ==
    IF ~IsObject(rubric_data) THEN NoneTypeError
    ELSE RubricOfTuples(Get(rubric_data, "total_points", 20),
                        Get(rubric_data, "nd_range", <<0, 0>>),
                        Get(rubric_data, "ni_range", <<0, 0>>),
                        Get(rubric_data, "na_range", <<0, 0>>),
                        Get(rubric_data, "criteria_points", <<>>))

\* a try body that reads data["grid"] and the others without testing that
\* the keys are there: the KeyError goes to the last except clause
ParseResponseBody_NoKeyCheck(api_response, input_data, now) ==
    IF api_response = <<>>
    THEN Raise("ValueError", <<"Empty response from API">>)
    ELSE LET loaded == JsonLoads(StripFences(api_response))
         IN  IF ~loaded.ok THEN loaded
             ELSE LET data == loaded.val
                  IN  IF ~IsObject(data) THEN NoneTypeError
                      ELSE IF "grid" \notin DOMAIN data
                      THEN Raise("KeyError", <<"grid">>)
                      ELSE LET grid == ParseGrid(data.grid)
                           IN  IF ~grid.ok THEN grid
                               ELSE IF "situation" \notin DOMAIN data
                               THEN Raise("KeyError", <<"situation">>)
                               ELSE LET situation == ParseSituation(data.situation,
                                                                    input_data)
                                    IN  IF ~situation.ok THEN situation
                                        ELSE IF "rubric" \notin DOMAIN data
                                        THEN Raise("KeyError", <<"rubric">>)
                                        ELSE LET rubric == ParseRubric(data.rubric)
                                             IN  IF ~rubric.ok THEN rubric
                                                 ELSE Ok(NewAssessmentOutput(
                                                          input_data, grid.val,
                                                          situation.val, rubric.val,
                                                          "", now))

\* the try body of _parse_response
ParseResponseBody(api_response, input_data, now) ==
    IF api_response = <<>>
    THEN Raise("ValueError", <<"Empty response from API">>)
    ELSE LET loaded == JsonLoads(StripFences(api_response))
         IN  IF ~loaded.ok THEN loaded
             ELSE LET data == loaded.val
                  IN  IF ~IsObject(data) THEN NoneTypeError
                      ELSE IF "grid" \notin DOMAIN data
                      THEN Raise("ValueError", <<"Missing", "grid", "in response">>)
                      ELSE IF "situation" \notin DOMAIN data
                      THEN Raise("ValueError", <<"Missing", "situation", "in response">>)
                      ELSE IF "rubric" \notin DOMAIN data
                      THEN Raise("ValueError", <<"Missing", "rubric", "in response">>)
                      ELSE LET grid == ParseGrid(data.grid)
                               situation == ParseSituation(data.situation, input_data)
                               rubric == ParseRubric(data.rubric)
                           IN  IF ~grid.ok THEN grid
                               ELSE IF ~situation.ok THEN situation
                               ELSE IF ~rubric.ok THEN rubric
                               ELSE Ok(NewAssessmentOutput(input_data, grid.val,
                                           situation.val, rubric.val, "", now))

\* the three except clauses of _parse_response and _parse_validation_response
ParseHandlers(body, onJson, onValue, onOther) ==
    IF body.ok THEN body
    ELSE IF body.type = "JSONDecodeError"
    THEN Raise("Exception", onJson \o body.msg \o <<"Content:", "<excerpt>">>)
    ELSE IF body.type = "ValueError"
    THEN Raise("Exception", onValue \o body.msg)
    ELSE Raise("Exception", onOther \o body.msg)

\* GeneratorAgent._parse_response
ParseResponse(api_response, input_data, now) ==
    ParseHandlers(ParseResponseBody(api_response, input_data, now),
                  <<"Failed to parse JSON response:">>,
                  <<"Invalid response format:">>,
                  <<"Error parsing response:">>)

\* the try body of _parse_validation_response
ParseValidationBody(api_response, now) ==
    IF api_response = <<>>
    THEN Raise("ValueError", <<"Empty response from validation API">>)
    ELSE LET loaded == JsonLoads(StripFences(api_response))
         IN  IF ~loaded.ok THEN loaded
             ELSE LET data == loaded.val
                  IN  IF ~IsObject(data) THEN NoneTypeError
                      ELSE IF "is_valid" \notin DOMAIN data
                      THEN Raise("ValueError",
                                 <<"Missing", "is_valid", "in validation response">>)
                      ELSE NewValidationResult(Get(data, "is_valid", FALSE),
                                               Get(data, "alignment_score", ""),
                                               Get(data, "observability_issues", <<>>),
                                               Get(data, "coherence_issues", <<>>),
                                               Get(data, "feedback", <<>>),
                                               "", now)

\* CriticAgent._parse_validation_response
ParseValidationResponse(api_response, now) ==
    ParseHandlers(ParseValidationBody(api_response, now),
                  <<"Failed to parse validation JSON response:">>,
                  <<"Invalid validation response format:">>,
                  <<"Error parsing validation response:">>)

\* ------------------------------------------------------------------ inputs
\* the values initial_retry_delay of an agent is taken to have
InitialDelays == {DefaultInitialRetryDelay, 3}

\* the largest completion reason code the service is taken to send
MaxFinishReason == 6

\* the instants datetime.now().isoformat() is taken to give
Timestamps == {"T1"}

\* the CompetencyInput values collect_inputs is taken to return
CompetencyInputs ==
    {[competency |-> "Web", element |-> e, niveau |-> "L2", parcours |-> "Info",
      specialite |-> "Dev", duree |-> "2h"] : e \in {"", "UI"}}

\* the descriptions of the criteria of a tier, in the order the service lists
\* them
CriterionNames ==
    [nd |-> <<"nd1", "nd2", "nd3", "nd4", "nd5">>,
     ni |-> <<"ni1", "ni2", "ni3", "ni4", "ni5">>,
     na |-> <<"na1", "na2", "na3", "na4", "na5">>]

\* a JSON list of n criteria of a tier
CriteriaJson(tier, n) ==
    [i \in 1..n |-> [description |-> CriterionNames[tier][i],
                     indicators |-> <<"i1">>, points |-> 2]]

GridJson(nd, ni, na) ==
    [nd_criteria |-> CriteriaJson("nd", nd), ni_criteria |-> CriteriaJson("ni", ni),
     na_criteria |-> CriteriaJson("na", na)]

SituationJson ==
    [context |-> "ctx", task |-> "tsk", instructions |-> "inst", duration |-> "3h"]

RubricJson(total, points) ==
    [total_points |-> total, nd_range |-> <<0, 6>>, ni_range |-> <<7, 13>>,
     na_range |-> <<14, 20>>,
     criteria_points |-> <<[label |-> "c1", points |-> 2],
                           [label |-> "c2", points |-> points]>>]

GoodDoc == [grid |-> GridJson(3, 3, 3), situation |-> SituationJson,
            rubric |-> RubricJson(20, 3)]

\* JSON documents that _parse_response accepts
AcceptedDocs ==
    {GoodDoc,
     [grid |-> GridJson(4, 3, 3), situation |-> [instructions |-> "inst"],
      rubric |-> RubricJson(100, 3)]}

\* JSON documents with the three required keys that break a domain invariant
InvariantBreakingDocs ==
    {[GoodDoc EXCEPT !.grid = GridJson(2, 3, 3)],
     [GoodDoc EXCEPT !.grid = GridJson(3, 3, 2)],
     [GoodDoc EXCEPT !.grid = [nd_criteria |-> CriteriaJson("nd", 3),
                               ni_criteria |-> CriteriaJson("ni", 3)]],
     [GoodDoc EXCEPT !.grid.ni_criteria[2].description = " "],
     [GoodDoc EXCEPT !.situation = [context |-> "ctx", duration |-> "3h"]],
     [GoodDoc EXCEPT !.rubric = RubricJson(15, 3)],
     [GoodDoc EXCEPT !.rubric = RubricJson(20, 0)]}

\* JSON documents that lack a required key or hold null where an object is due
MalformedDocs ==
    {[situation |-> SituationJson, rubric |-> RubricJson(20, 3)],
     [grid |-> GridJson(3, 3, 3), rubric |-> RubricJson(20, 3)],
     [grid |-> GridJson(3, 3, 3), situation |-> SituationJson],
     [GoodDoc EXCEPT !.grid = JNull],
     JNull}

GenDocs == AcceptedDocs \cup InvariantBreakingDocs \cup MalformedDocs

\* the texts a document d may come in
Bare(d) == <<Js(d)>>

FencedJson(d) == FenceJson \o <<Ch("\n"), Js(d), Ch("\n")>> \o Fence

Fenced(d) == Fence \o <<Ch("\n"), Js(d), Ch("\n")>> \o Fence

TextsOf(docs) ==
    {Bare(d) : d \in docs} \cup {FencedJson(d) : d \in docs}
    \cup {Fenced(d) : d \in docs}
    \cup {<<>>, <<Ch(" "), Ch("\n")>>, <<Ch("x")>>}

\* what client.generate_content may do: the transport raises, or a response
\* comes with no candidate, with a first candidate that did not stop normally
\* (its text a document that would parse), or with one that did
ResponsesOf(docs, good) ==
    {[error |-> <<"Connection error">>]}
    \cup {[candidates |-> <<>>, text |-> <<>>]}
    \cup {[candidates |-> <<[finish_reason |-> n]>>, text |-> Bare(good)] :
              n \in (0..MaxFinishReason) \ {FinishReasonStop}}
    \cup {[candidates |-> <<[finish_reason |-> 3], [finish_reason |-> 1]>>,
           text |-> Bare(good)]}
    \cup {[candidates |-> <<[finish_reason |-> FinishReasonStop]>>, text |-> t] :
              t \in TextsOf(docs)}
    \cup {[candidates |-> <<[finish_reason |-> 1], [finish_reason |-> 2]>>,
           text |-> Bare(good)]}

GenResponses == ResponsesOf(GenDocs, GoodDoc)

GoodVerdict == [is_valid |-> TRUE, alignment_score |-> "good",
                observability_issues |-> <<>>, coherence_issues |-> <<>>,
                feedback |-> <<"fine">>]

\* JSON documents the critic may get
CriticDocs ==
    {GoodVerdict,
     [is_valid |-> TRUE],
     [GoodVerdict EXCEPT !.is_valid = FALSE, !.alignment_score = "poor",
                         !.observability_issues = <<"vague">>,
                         !.feedback = <<"weak">>],
     [GoodVerdict EXCEPT !.is_valid = FALSE, !.feedback = <<" ">>],
     [is_valid |-> FALSE, alignment_score |-> "poor"],
     [alignment_score |-> "good", feedback |-> <<"fine">>],
     JNull}

CriticResponses == ResponsesOf(CriticDocs, GoodVerdict)

\* ------------------------------------------------------------------- state
VARIABLES
    pc,          \* where main() and SkillAssessGPT.run stand
    exit_code,   \* the process status: -1 while running, then 0 or 1
    abort,       \* the stage whose failure ended the run, "" when none did
    input_data,  \* run's input_data, None until collected
    assessment,  \* run's assessment, None until generation returned
    validation,  \* run's validation, None until the validation stage ended
    generator,   \* the GeneratorAgent and its call of generate_assessment
    critic,      \* the CriticAgent and its call of validate_assessment
    events,      \* what the run did to the outside, in order
    exports,     \* the documents written, in order
    trial        \* a call of one operation on its own, as src/tests make them:
                 \* its name, its arguments and what it returned or raised

vars == <<pc, exit_code, abort, input_data, assessment, validation, generator,
          critic, events, exports, trial>>

\* GeneratorAgent.__init__ / CriticAgent.__init__, with the two retry fields as
\* the caller left them, and no call in progress
NewAgent(max_retries, initial_retry_delay) ==
    [max_retries |-> max_retries, initial_retry_delay |-> initial_retry_delay,
     status |-> "idle", prompt |-> None, attempt |-> 0, calls |-> 0,
     sleeps |-> <<>>, resp |-> None, result |-> None, raised |-> <<>>]

Init ==
    /\ pc = "start"
    /\ exit_code = -1
    /\ abort = ""
    /\ input_data = None
    /\ assessment = None
    /\ validation = None
    /\ \E m \in 0..MaxRetriesBound, d \in InitialDelays :
           generator = NewAgent(m, d)
    /\ \E m \in 0..MaxRetriesBound, d \in InitialDelays :
           critic = NewAgent(m, d)
    /\ events = <<>>
    /\ exports = <<>>
    /\ trial = None

\* ------------------------------------------------------------ prompt builders
\* GeneratorAgent._build_prompt
BuildPrompt(input) ==
    [task |-> "generate",
     fields |-> <<input.competency>>
                \o (IF input.element # "" THEN <<input.element>> ELSE <<>>)
                \o <<input.niveau, input.parcours, input.specialite, input.duree>>]

\* CriticAgent._build_validation_prompt
BuildValidationPrompt(a) == [task |-> "validate", assessment_json |-> a]

\* ------------------------------------------------------------ the retry loop
\* the loop running once more than max_retries says
LoopContinues_OneMore(attempt, max_retries) == attempt <= max_retries

\* "for attempt in range(self.max_retries)": whether the loop has an iteration
\* for this value of attempt
LoopContinues(attempt, max_retries) == attempt < max_retries

\* "attempt < self.max_retries - 1"
AttemptsRemain(attempt, max_retries) == attempt < max_retries - 1

\* a backoff that grows by addition instead of doubling
Backoff_Linear(initial_retry_delay, attempt) == initial_retry_delay * (attempt + 1)

\* "self.initial_retry_delay * (2 ** attempt)"
Backoff(initial_retry_delay, attempt) == initial_retry_delay * Pow2(attempt)

\* the try body of generate_assessment's loop
GenTry(r, input, now) ==
    LET response == GenCallApi(r)
    IN  IF ~response.ok THEN response ELSE ParseResponse(response.val, input, now)

\* the try body of validate_assessment's loop
CriticTry(r, now) ==
    LET response == CriticCallApi(r)
    IN  IF ~response.ok THEN response ELSE ParseValidationResponse(response.val, now)

\* the exhaustion message without the cause of the last failure
GenExhausted_NoCause(max_retries, msg) ==
    <<"Failed to generate assessment after">> \o Str(max_retries)
    \o <<"attempts:">>

\* the exception generate_assessment raises on exhaustion
GenExhausted(max_retries, msg) ==
    <<"Failed to generate assessment after">> \o Str(max_retries)
    \o <<"attempts:">> \o msg

\* the ValidationResult validate_assessment returns on exhaustion
CriticExhausted(msg, now) ==
    NewValidationResult(FALSE, "", <<>>, <<>>,
        <<"Validation", "could not be completed", "due to API error:">> \o msg,
        "", now)

\* an iteration that keeps the value but goes on looping
AttemptReturns_KeepsLooping(a, value) ==
    [a EXCEPT !.resp = None, !.result = value, !.attempt = @ + 1]

\* one iteration of a retry loop that ended in a value: return it
AttemptReturns(a, value) ==
    [a EXCEPT !.status = "returned", !.resp = None, !.result = value]

\* a failed iteration that keeps the doubled delay in initial_retry_delay
AttemptRetries_DelayStored(a) ==
    [a EXCEPT !.resp = None,
              !.sleeps = Append(@, Backoff(a.initial_retry_delay, a.attempt)),
              !.initial_retry_delay = 2 * @,
              !.attempt = @ + 1]

\* one iteration that failed with attempts left: sleep and go on
AttemptRetries(a) ==
    [a EXCEPT !.resp = None,
              !.sleeps = Append(@, Backoff(a.initial_retry_delay, a.attempt)),
              !.attempt = @ + 1]

\* one iteration that failed with no attempt left, in generate_assessment
AttemptRaises(a, msg) ==
    [a EXCEPT !.status = "raised", !.resp = None, !.raised = msg]

\* client.generate_content is called and answers with r
AttemptCalls(a, r) == [a EXCEPT !.calls = @ + 1, !.resp = r]

Call(who, prompt) == [ev |-> "call", who |-> who, prompt |-> prompt]

Sleep(who, delay) == [ev |-> "sleep", who |-> who, delay |-> delay]

End(who, how) == [ev |-> how, who |-> who]

\* an except clause of main that prints and forgets sys.exit(1)
Exit1_Forgotten(cause) ==
    /\ pc' = "exit"
    /\ exit_code' = 0
    /\ abort' = cause

\* the process ends with status 1 (main's except clauses)
Exit1(cause) ==
    /\ pc' = "exit"
    /\ exit_code' = 1
    /\ abort' = cause

\* -------------------------------------------------------------------- actions
\* main: SkillAssessGPT() finds the API key or raises ValueError
Construct ==
    /\ pc = "start"
    /\ \E api_key \in BOOLEAN :
           IF api_key
           THEN pc' = "collect" /\ UNCHANGED <<exit_code, abort>>
           ELSE Exit1("config")
    /\ UNCHANGED <<input_data, assessment, validation, generator, critic, events,
                   exports>>
    /\ UNCHANGED trial

\* run, stage 1: collect_inputs returns a CompetencyInput or raises
CollectInputs ==
    /\ pc = "collect"
    /\ \E collected \in CompetencyInputs \cup {None} :
           IF IsNone(collected)
           THEN Exit1("input") /\ UNCHANGED input_data
           ELSE /\ pc' = "generate"
                /\ input_data' = collected
                /\ UNCHANGED <<exit_code, abort>>
    /\ UNCHANGED <<assessment, validation, generator, critic, events, exports>>
    /\ UNCHANGED trial

\* run, stage 2: generate_assessment is called and builds its prompt
RunGenerate ==
    /\ pc = "generate"
    /\ generator.status = "idle"
    /\ generator' = [generator EXCEPT !.status = "active",
                                      !.prompt = BuildPrompt(input_data)]
    /\ UNCHANGED <<pc, exit_code, abort, input_data, assessment, validation,
                   critic, events, exports>>
    /\ UNCHANGED trial

\* generate_assessment's loop enters an iteration: _call_api sends the prompt
\* and the service answers or the transport raises
GenCall ==
    /\ generator.status = "active"
    /\ pc = "generate"
    /\ IsNone(generator.resp)
    /\ LoopContinues(generator.attempt, generator.max_retries)
    /\ \E r \in GenResponses :
           generator' = AttemptCalls(generator, r)
    /\ events' = Append(events, Call("generator", generator.prompt))
    /\ UNCHANGED <<pc, exit_code, abort, input_data, assessment, validation,
                   critic, exports>>
    /\ UNCHANGED trial

\* the rest of the iteration: _call_api reads the answer, _parse_response
\* parses it, and the loop returns, sleeps or raises
GenAttempt ==
    /\ generator.status = "active"
    /\ pc = "generate"
    /\ ~IsNone(generator.resp)
    /\ \E now \in Timestamps :
           LET res == GenTry(generator.resp, input_data, now)
           IN  IF res.ok
               THEN /\ generator' = AttemptReturns(generator, res.val)
                    /\ events' = Append(events, End("generator", "return"))
               ELSE IF AttemptsRemain(generator.attempt, generator.max_retries)
               THEN /\ generator' = AttemptRetries(generator)
                    /\ events' = Append(events,
                           Sleep("generator", Backoff(generator.initial_retry_delay,
                                                      generator.attempt)))
               ELSE /\ generator' = AttemptRaises(generator,
                                        GenExhausted(generator.max_retries, res.msg))
                    /\ events' = Append(events, End("generator", "raise"))
    /\ UNCHANGED <<pc, exit_code, abort, input_data, assessment, validation,
                   critic, exports>>
    /\ UNCHANGED trial

\* generate_assessment's loop ends without a return or a raise: the function
\* falls off its end and returns None
GenLoopEnd ==
    /\ generator.status = "active"
    /\ pc = "generate"
    /\ IsNone(generator.resp)
    /\ ~LoopContinues(generator.attempt, generator.max_retries)
    /\ generator' = [generator EXCEPT !.status = "returned", !.result = None]
    /\ events' = Append(events, End("generator", "return"))
    /\ UNCHANGED <<pc, exit_code, abort, input_data, assessment, validation,
                   critic, exports>>
    /\ UNCHANGED trial

\* a stage 2 that swallows the failure and goes on
GenerationFailed_Swallowed(g) == FALSE

\* whether stage 2 of run ends in its except clause: generate_assessment
\* raised, or the prints read a field of None
GenerationFailed(g) == g.status = "raised" \/ IsNone(g.result)

\* run, stage 2 after the call: the prints that read the assessment, or the
\* except clause that re-raises to main
RunAfterGenerate ==
    /\ pc = "generate"
    /\ generator.status \in {"returned", "raised"}
    /\ IF GenerationFailed(generator)
       THEN Exit1("generation") /\ UNCHANGED assessment
       ELSE /\ pc' = "validate"
            /\ assessment' = generator.result
            /\ UNCHANGED <<exit_code, abort>>
    /\ UNCHANGED <<input_data, validation, generator, critic, events, exports>>
    /\ UNCHANGED trial

\* run, stage 3: validate_assessment is called and builds its prompt
RunValidate ==
    /\ pc = "validate"
    /\ critic.status = "idle"
    /\ critic' = [critic EXCEPT !.status = "active",
                                !.prompt = BuildValidationPrompt(assessment)]
    /\ UNCHANGED <<pc, exit_code, abort, input_data, assessment, validation,
                   generator, events, exports>>
    /\ UNCHANGED trial

\* validate_assessment's loop enters an iteration: _call_api sends the prompt
\* and the service answers or the transport raises
CriticCall ==
    /\ critic.status = "active"
    /\ pc = "validate"
    /\ IsNone(critic.resp)
    /\ LoopContinues(critic.attempt, critic.max_retries)
    /\ \E r \in CriticResponses :
           critic' = AttemptCalls(critic, r)
    /\ events' = Append(events, Call("critic", critic.prompt))
    /\ UNCHANGED <<pc, exit_code, abort, input_data, assessment, validation,
                   generator, exports>>
    /\ UNCHANGED trial

\* an exhaustion that raises as generate_assessment's does
CriticGivesUp_Raises(a, msg, now) ==
    AttemptRaises(a, <<"Failed to validate assessment:">> \o msg)

\* what the last except clause of validate_assessment does: it returns the
\* degraded result, unless building it raises
CriticGivesUp(a, msg, now) ==
    LET degraded == CriticExhausted(msg, now)
    IN  IF degraded.ok THEN AttemptReturns(a, degraded.val)
        ELSE AttemptRaises(a, degraded.msg)

\* the rest of the iteration: _call_api reads the answer,
\* _parse_validation_response parses it, and the loop returns or sleeps
CriticAttempt ==
    /\ critic.status = "active"
    /\ pc = "validate"
    /\ ~IsNone(critic.resp)
    /\ \E now \in Timestamps :
           LET res == CriticTry(critic.resp, now)
           IN  IF res.ok
               THEN /\ critic' = AttemptReturns(critic, res.val)
                    /\ events' = Append(events, End("critic", "return"))
               ELSE IF AttemptsRemain(critic.attempt, critic.max_retries)
               THEN /\ critic' = AttemptRetries(critic)
                    /\ events' = Append(events,
                           Sleep("critic", Backoff(critic.initial_retry_delay,
                                                   critic.attempt)))
               ELSE /\ critic' = CriticGivesUp(critic, res.msg, now)
                    /\ events' = Append(events,
                           End("critic", IF critic'.status = "returned"
                                         THEN "return" ELSE "raise"))
    /\ UNCHANGED <<pc, exit_code, abort, input_data, assessment, validation,
                   generator, exports>>
    /\ UNCHANGED trial

\* validate_assessment's loop ends without a return: the function returns None
CriticLoopEnd ==
    /\ critic.status = "active"
    /\ pc = "validate"
    /\ IsNone(critic.resp)
    /\ ~LoopContinues(critic.attempt, critic.max_retries)
    /\ critic' = [critic EXCEPT !.status = "returned", !.result = None]
    /\ events' = Append(events, End("critic", "return"))
    /\ UNCHANGED <<pc, exit_code, abort, input_data, assessment, validation,
                   generator, exports>>
    /\ UNCHANGED trial

\* the fallback ValidationResult of run's except clause
RunFallback(msg, now) ==
    NewValidationResult(FALSE, "", <<>>, <<>>,
                        <<"Validation non completee :">> \o msg, "", now)

\* a stage 3 whose except clause re-raises as stage 2's does
ValidationStage_Reraises(c, now) ==
    IF c.status = "raised" THEN Raise("Exception", c.raised)
    ELSE IF IsNone(c.result) THEN NoneTypeError
    ELSE Ok(c.result)

\* what stage 3 of run leaves in validation: the result of the call, or the
\* fallback of the except clause when the call raised or the prints read a
\* field of None
ValidationStage(c, now) ==
    IF c.status = "raised" THEN RunFallback(c.raised, now)
    ELSE IF IsNone(c.result) THEN RunFallback(NoneTypeError.msg, now)
    ELSE Ok(c.result)

\* run, stage 3 after the call; an exception of the except clause itself
\* would leave run
RunAfterValidate ==
    /\ pc = "validate"
    /\ critic.status \in {"returned", "raised"}
    /\ \E now \in Timestamps :
           LET stage == ValidationStage(critic, now)
           IN  IF stage.ok
               THEN /\ validation' = stage.val
                    /\ pc' = "export_json"
                    /\ UNCHANGED <<exit_code, abort>>
               ELSE Exit1("validation") /\ UNCHANGED validation
    /\ UNCHANGED <<input_data, assessment, generator, critic, events, exports>>
    /\ UNCHANGED trial

\* what an export writes
Exported(format, a, v) == [format |-> format, assessment |-> a, validation |-> v]

\* an export_json that stamps the assessment it writes
ExportJson_StampsAssessment ==
    /\ pc = "export_json"
    /\ \E written \in BOOLEAN :
           IF written
           THEN /\ exports' = Append(exports, Exported("json", assessment, validation))
                /\ events' = Append(events, End("exporter", "export_json"))
                /\ pc' = "export_md"
                /\ assessment' = IF IsNone(assessment) THEN assessment
                                 ELSE [assessment EXCEPT !.generated_at = "exported"]
                /\ UNCHANGED <<exit_code, abort>>
           ELSE Exit1("export") /\ UNCHANGED <<exports, events, assessment>>
    /\ UNCHANGED <<input_data, validation, generator, critic>>
    /\ UNCHANGED trial

\* run, stage 4: export_json writes the file or raises
ExportJson ==
    /\ pc = "export_json"
    /\ \E written \in BOOLEAN :
           IF written
           THEN /\ exports' = Append(exports, Exported("json", assessment, validation))
                /\ events' = Append(events, End("exporter", "export_json"))
                /\ pc' = "export_md"
                /\ UNCHANGED <<exit_code, abort>>
           ELSE Exit1("export") /\ UNCHANGED <<exports, events>>
    /\ UNCHANGED <<input_data, assessment, validation, generator, critic>>
    /\ UNCHANGED trial

\* run, stage 4: export_markdown writes the file or raises; then run returns
\* and main ends normally
ExportMarkdown ==
    /\ pc = "export_md"
    /\ \E written \in BOOLEAN :
           IF written
           THEN /\ exports' = Append(exports, Exported("markdown", assessment,
                                                       validation))
                /\ events' = Append(events, End("exporter", "export_markdown"))
                /\ pc' = "exit"
                /\ exit_code' = 0
                /\ UNCHANGED abort
           ELSE Exit1("export") /\ UNCHANGED <<exports, events>>
    /\ UNCHANGED <<input_data, assessment, validation, generator, critic>>
    /\ UNCHANGED trial

\* main: a KeyboardInterrupt at any point of the run
Interrupt ==
    /\ pc # "exit"
    /\ Exit1("interrupt")
    /\ UNCHANGED <<input_data, assessment, validation, generator, critic, events,
                   exports>>
    /\ UNCHANGED trial

Next ==
    \/ Construct
    \/ CollectInputs
    \/ RunGenerate
    \/ GenCall
    \/ GenAttempt
    \/ GenLoopEnd
    \/ RunAfterGenerate
    \/ RunValidate
    \/ CriticCall
    \/ CriticAttempt
    \/ CriticLoopEnd
    \/ RunAfterValidate
    \/ ExportJson
    \/ ExportMarkdown
    \/ Interrupt

Spec == Init /\ [][Next]_vars

TypeOK ==
    /\ pc \in {"start", "collect", "generate", "validate", "export_json",
               "export_md", "exit"}
    /\ exit_code \in {-1, 0, 1}
    /\ generator.status \in {"idle", "active", "returned", "raised"}
    /\ critic.status \in {"idle", "active", "returned", "raised"}

\* ------------------------------------------ operations called on their own
\* the variables of a run, which a call of one operation leaves alone
run_vars == <<pc, exit_code, abort, input_data, assessment, validation, generator,
              critic, events, exports>>

\* a language tag other than json
OtherTag == <<Ch("J"), Ch("S"), Ch("O"), Ch("N")>>

\* the document d in a fence that carries the language tag
FencedAs(tag, d) == Fence \o tag \o <<Ch("\n"), Js(d), Ch("\n")>> \o Fence

\* the document d with a fence on one side only, or with whitespace around a
\* fenced text
OpenFence(tag, d) == Fence \o tag \o <<Ch("\n"), Js(d)>>

CloseFence(d) == <<Js(d), Ch("\n")>> \o Fence

Padded(t) == <<Ch(" "), Ch("\n")>> \o t \o <<Ch("\n"), Ch(" ")>>

\* the forms of a text around d whose fences the parsers strip
StrippedForms(d) ==
    {Fenced(d), FencedJson(d), OpenFence(<<>>, d),
     OpenFence(<<Ch("j"), Ch("s"), Ch("o"), Ch("n")>>, d), CloseFence(d),
     Padded(Fenced(d)), Padded(FencedJson(d)), Padded(Bare(d))}

\* the texts handed to a parser: those of a run, a document in each form, and
\* a document under another language tag
TrialTexts(docs) ==
    TextsOf(docs)
    \cup UNION {StrippedForms(d) : d \in docs}
    \cup {FencedAs(OtherTag, d) : d \in docs}
    \cup {<<Ch(" ")>>, <<Ch("\n"), Ch("\n")>>}

\* an object with no key
EmptyObject == [k \in {} |-> JNull]

\* JSON documents with the three top-level keys in which a field below them
\* is absent
DefaultedDocs ==
    {[GoodDoc EXCEPT !.rubric = [nd_range |-> <<0, 6>>, ni_range |-> <<7, 13>>,
                                 na_range |-> <<14, 20>>,
                                 criteria_points |-> <<[label |-> "c1",
                                                        points |-> 2]>>]],
     [GoodDoc EXCEPT !.rubric = [total_points |-> 100]],
     [GoodDoc EXCEPT !.rubric = EmptyObject],
     [GoodDoc EXCEPT !.situation = [context |-> "ctx", task |-> "tsk",
                                    instructions |-> "inst"]],
     [GoodDoc EXCEPT !.situation = [duration |-> "3h"]],
     [GoodDoc EXCEPT !.situation = EmptyObject],
     [GoodDoc EXCEPT !.grid = [nd_criteria |-> CriteriaJson("nd", 3)]],
     [GoodDoc EXCEPT !.grid = EmptyObject]}

\* JSON documents handed to _parse_response: those of a run, objects that
\* lack more than one required key, and objects that lack a lower field
TrialGenDocs ==
    GenDocs \cup DefaultedDocs
            \cup {EmptyObject,
                  [situation |-> EmptyObject, rubric |-> EmptyObject],
                  [rubric |-> RubricJson(20, 3)],
                  [grid |-> GridJson(3, 3, 3)],
                  [GoodDoc EXCEPT !.grid.ni_criteria[2] = [description |-> "only"],
                                  !.grid.na_criteria[3].indicators = <<"i1", "i2">>]}

\* JSON documents handed to _parse_validation_response
TrialCriticDocs ==
    CriticDocs \cup {EmptyObject,
                     [feedback |-> <<"weak">>],
                     [is_valid |-> FALSE, feedback |-> <<>>]}

\* the state in which one operation is called on its own: the agents as their
\* constructors leave them by default, no run under way, no call made yet
UnitInit ==
    /\ pc = "start"
    /\ exit_code = -1
    /\ abort = ""
    /\ input_data = None
    /\ assessment = None
    /\ validation = None
    /\ generator = NewAgent(DefaultMaxRetries, DefaultInitialRetryDelay)
    /\ critic = NewAgent(DefaultMaxRetries, DefaultInitialRetryDelay)
    /\ events = <<>>
    /\ exports = <<>>
    /\ trial = None

\* the values a text field is given
TextValues == {"", " ", "x"}

CompetencyFields ==
    {"competency", "element", "niveau", "parcours", "specialite", "duree"}

\* CompetencyInput(competency=..., element=..., ...)
CallCompetencyInput ==
    /\ IsNone(trial)
    /\ \E f \in [CompetencyFields -> TextValues] :
           trial' = [op |-> "CompetencyInput", args |-> f,
                     result |-> NewCompetencyInput(f.competency, f.element,
                                    f.niveau, f.parcours, f.specialite, f.duree)]
    /\ UNCHANGED run_vars

\* the three fields of an APCGrid
Tiers == {"nd_criteria", "ni_criteria", "na_criteria"}

\* APCGrid(nd_criteria=..., ni_criteria=..., na_criteria=...) on lists of
\* Criterion instances
CallAPCGrid ==
    /\ IsNone(trial)
    /\ \E nd \in 0..MaxCriteria, ni \in 0..MaxCriteria, na \in 0..MaxCriteria :
           LET args == GridJson(nd, ni, na)
           IN  trial' = [op |-> "APCGrid", args |-> args,
                         result |-> NewAPCGrid(args.nd_criteria, args.ni_criteria,
                                               args.na_criteria)]
    /\ UNCHANGED run_vars

\* the mappings handed to APCGrid.from_dict: lists of every length, any of the
\* keys absent, and a criterion whose description is blank
GridDicts ==
    {[k \in K |-> GridJson(nd, ni, na)[k]] :
         K \in SUBSET Tiers, nd \in 2..MaxCriteria, ni \in 2..MaxCriteria,
         na \in 2..MaxCriteria}
    \cup {[GridJson(3, 3, 3) EXCEPT !.ni_criteria[1].description = " "],
          [GridJson(3, 3, 2) EXCEPT !.nd_criteria[3] = [points |-> 2]]}

\* APCGrid.from_dict(data)
CallAPCGridFromDict ==
    /\ IsNone(trial)
    /\ \E data \in GridDicts :
           trial' = [op |-> "APCGrid.from_dict", data |-> data,
                     result |-> APCGridFromDict(data)]
    /\ UNCHANGED run_vars

\* the totals and the points a rubric is given
RubricTotals == {0, 15, 20, 21, 100}

PointsValues == {-1, 0, 1, 5}

\* the criteria_points mappings a rubric is given, in their iteration order
PointsLists ==
    {<<>>}
    \cup {<<[label |-> "c1", points |-> p]>> : p \in PointsValues}
    \cup {<<[label |-> "c1", points |-> p], [label |-> "c2", points |-> q]>> :
              p \in PointsValues, q \in PointsValues}

\* ScoringRubric(total_points=..., ..., criteria_points=...)
CallScoringRubric ==
    /\ IsNone(trial)
    /\ \E total \in RubricTotals, points \in PointsLists :
           LET args == [total_points |-> total, nd_range |-> TupleValue(<<0, 6>>),
                        ni_range |-> TupleValue(<<7, 13>>),
                        na_range |-> TupleValue(<<14, 20>>),
                        criteria_points |-> points]
           IN  trial' = [op |-> "ScoringRubric", args |-> args,
                         result |-> NewScoringRubric(total, args.nd_range,
                                        args.ni_range, args.na_range, points)]
    /\ UNCHANGED run_vars

\* the keys of the mappings handed to ScoringRubric.from_dict: all of them, or
\* some absent
RubricKeySets ==
    {{"total_points", "nd_range", "ni_range", "na_range", "criteria_points"},
     {"nd_range", "ni_range", "na_range", "criteria_points"},
     {"total_points", "ni_range", "criteria_points"},
     {"total_points"}, {}}

\* a mapping handed to ScoringRubric.from_dict: a total that is permitted or
\* not, ranges that are lists or null, points that are positive or not
RubricDict(keys, total, nd_null, na_null, points) ==
    [k \in keys |->
        [total_points |-> total,
         nd_range |-> IF nd_null THEN JNull ELSE <<0, 6>>,
         ni_range |-> <<7, 13>>,
         na_range |-> IF na_null THEN JNull ELSE <<14, 20>>,
         criteria_points |-> <<[label |-> "c1", points |-> points]>>][k]]

\* ScoringRubric.from_dict(data); the call is recorded by what its mapping
\* is made of
CallScoringRubricFromDict ==
    /\ IsNone(trial)
    /\ \E keys \in RubricKeySets, total \in {15, 20}, nd_null \in BOOLEAN,
          na_null \in BOOLEAN, points \in {0, 2} :
           trial' = [op |-> "ScoringRubric.from_dict", keys |-> keys,
                     total |-> total, nd_null |-> nd_null, na_null |-> na_null,
                     points |-> points,
                     result |-> ScoringRubricFromDict(
                                    RubricDict(keys, total, nd_null, na_null,
                                               points))]
    /\ UNCHANGED run_vars

\* the mappings handed to ValidationResult.from_dict
VerdictDicts ==
    (TrialCriticDocs \ {JNull})
    \cup {[GoodVerdict EXCEPT !.is_valid = FALSE] @@ [validated_at |-> "T0"],
          [validated_at |-> "T0"]}

\* ValidationResult.from_dict(data)
CallValidationResultFromDict ==
    /\ IsNone(trial)
    /\ \E data \in VerdictDicts, now \in Timestamps :
           trial' = [op |-> "ValidationResult.from_dict", data |-> data,
                     now |-> now, result |-> ValidationResultFromDict(data, now)]
    /\ UNCHANGED run_vars

\* the mappings handed to CompetencyInput.from_dict: every field filled or
\* duree blank, and keys that are absent
CompetencyDicts ==
    {[k \in K |-> IF k = "duree" THEN duree ELSE "x"] :
         K \in SUBSET CompetencyFields, duree \in TextValues}

\* CompetencyInput.from_dict(data)
CallCompetencyInputFromDict ==
    /\ IsNone(trial)
    /\ \E data \in CompetencyDicts :
           trial' = [op |-> "CompetencyInput.from_dict", data |-> data,
                     result |-> CompetencyInputFromDict(data)]
    /\ UNCHANGED run_vars

\* generator._parse_response(api_response, input_data)
CallParseResponse ==
    /\ IsNone(trial)
    /\ \E api_response \in TrialTexts(TrialGenDocs), input \in CompetencyInputs,
          now \in Timestamps :
           trial' = [op |-> "_parse_response", api_response |-> api_response,
                     input_data |-> input, now |-> now,
                     result |-> ParseResponse(api_response, input, now)]
    /\ UNCHANGED run_vars

\* critic._parse_validation_response(api_response)
CallParseValidationResponse ==
    /\ IsNone(trial)
    /\ \E api_response \in TrialTexts(TrialCriticDocs), now \in Timestamps :
           trial' = [op |-> "_parse_validation_response",
                     api_response |-> api_response, now |-> now,
                     result |-> ParseValidationResponse(api_response, now)]
    /\ UNCHANGED run_vars

\* a value of an untyped mapping: its type, and the text str(value) gives
TextValue(t) == [kind |-> "text", text |-> t]

NumberValue(n) == [kind |-> "number", text |-> IF n = 0 THEN "0" ELSE "n"]

NullValue == [kind |-> "null", text |-> "None"]

\* bool(value): the empty text, 0 and None are false
Truthy(value) ==
    CASE value.kind = "text" -> value.text # ""
      [] value.kind = "number" -> value.text # "0"
      [] value.kind = "null" -> FALSE

\* the fields validate_inputs requires, in the order __post_init__ tests them
RequiredInputFields == <<"competency", "niveau", "parcours", "specialite", "duree">>

\* a validate_inputs that requires element as well
ValidateInputs_ElementRequired(data) ==
    LET missing_fields ==
            {k \in {"competency", "element", "niveau", "parcours", "specialite",
                    "duree"} :
                LET value == Get(data, k, TextValue(""))
                IN  ~Truthy(value) \/ Blank(value.text)}
    IN  missing_fields = {}

\* InputCollector.validate_inputs: "not value or not str(value).strip()" of
\* each required field
ValidateInputs(data) ==
    LET missing_fields ==
            {RequiredInputFields[i] : i \in
                {j \in DOMAIN RequiredInputFields :
                    LET value == Get(data, RequiredInputFields[j],
                                     TextValue(""))
                    IN  ~Truthy(value) \/ Blank(value.text)}}
    IN  missing_fields = {}

\* the text __post_init__ sees in a field whose value passes or fails the
\* test "not self.field" before strip is called
TextOf(value) ==
    IF value.kind = "text" THEN value.text
    ELSE IF Truthy(value) THEN "x" ELSE ""

\* CompetencyInput.from_dict of a mapping whose values need not be texts:
\* __post_init__ tests the fields in order, and "self.field.strip()" of a
\* value that is true and not a text raises AttributeError
CompetencyInputFromValues(data) ==
    LET value(i) == Get(data, RequiredInputFields[i], TextValue(""))
        noStrip == {i \in DOMAIN RequiredInputFields :
                       Truthy(value(i)) /\ value(i).kind # "text"}
        blank == {i \in DOMAIN RequiredInputFields : Blank(TextOf(value(i)))}
    IN  IF \E i \in noStrip : \A j \in blank : i < j
        THEN LET i == CHOOSE i \in noStrip : \A j \in noStrip : i <= j
             IN  Raise("AttributeError",
                       <<value(i).kind, "object has no attribute strip">>)
        ELSE NewCompetencyInput(TextOf(Get(data, "competency", TextValue(""))),
                                TextOf(Get(data, "element", TextValue(""))),
                                TextOf(Get(data, "niveau", TextValue(""))),
                                TextOf(Get(data, "parcours", TextValue(""))),
                                TextOf(Get(data, "specialite", TextValue(""))),
                                TextOf(Get(data, "duree", TextValue(""))))

\* the values a field of the mapping handed to validate_inputs is given
InputValues ==
    {TextValue(""), TextValue(" "), TextValue("x"), NumberValue(120),
     NumberValue(0), NullValue}

\* the mappings handed to validate_inputs: competency and duree of any value,
\* the other fields filled, and keys that are absent
InputMappings ==
    {[k \in K |-> IF k = "competency" THEN competency
                  ELSE IF k = "duree" THEN duree ELSE TextValue("x")] :
         K \in {CompetencyFields \ absent :
                    absent \in SUBSET {"element", "niveau", "duree"}},
         competency \in InputValues \ {TextValue(""), NumberValue(0)},
         duree \in InputValues}

\* collector.validate_inputs(input_data)
CallValidateInputs ==
    /\ IsNone(trial)
    /\ \E data \in InputMappings :
           trial' = [op |-> "validate_inputs", data |-> data,
                     result |-> Ok(ValidateInputs(data))]
    /\ UNCHANGED run_vars

\* generator._call_api(prompt) and critic._call_api(prompt), the service
\* answering r
CallCallApi ==
    /\ IsNone(trial)
    /\ \/ \E r \in GenResponses :
              trial' = [op |-> "_call_api", agent |-> "generator", response |-> r,
                        result |-> GenCallApi(r)]
       \/ \E r \in CriticResponses :
              trial' = [op |-> "_call_api", agent |-> "critic", response |-> r,
                        result |-> CriticCallApi(r)]
    /\ UNCHANGED run_vars

\* the instants of a later call of datetime.now().isoformat()
LaterTimestamps == {"T2"}

\* the AssessmentOutput values generation builds
Assessments ==
    {r.val : r \in {x \in {ParseResponse(Bare(d), input, now) :
                               d \in AcceptedDocs \cup DefaultedDocs,
                               input \in CompetencyInputs, now \in Timestamps} :
                        x.ok}}

\* the ValidationResult values validation builds: those parsed, and the one of
\* an exhausted validation
Validations ==
    {r.val : r \in {x \in {ParseValidationResponse(Bare(d), now) :
                               d \in TrialCriticDocs, now \in Timestamps}
                             \cup {CriticExhausted(<<"Connection error">>, now) :
                                       now \in Timestamps} :
                        x.ok}}

\* AssessmentOutput.from_dict(a.to_dict()) and ValidationResult.from_dict(
\* v.to_dict()), at a later instant
CallRoundTrip ==
    /\ IsNone(trial)
    /\ \E now \in LaterTimestamps :
           \/ \E a \in Assessments :
                  trial' = [op |-> "AssessmentOutput.from_dict(a.to_dict())",
                            instance |-> a, data |-> AssessmentOutputToDict(a),
                            now |-> now,
                            result |-> AssessmentOutputFromDict(
                                           AssessmentOutputToDict(a), now)]
           \/ \E v \in Validations :
                  trial' = [op |-> "ValidationResult.from_dict(v.to_dict())",
                            instance |-> v, data |-> ValidationResultToDict(v),
                            now |-> now,
                            result |-> ValidationResultFromDict(
                                           ValidationResultToDict(v), now)]
    /\ UNCHANGED run_vars

\* a path is the sequence of its pieces: names, the separator "/", the parent
\* directory ".." and extensions
Separator == "/"

\* os.path.join(a, b): an absolute b replaces a
PathJoin(a, b) ==
    IF StartsWith(b, <<Separator>>) THEN b
    ELSE IF EndsWith(a, <<Separator>>) THEN a \o b
    ELSE a \o <<Separator>> \o b

\* the path export_json and export_markdown write to: the filepath is put
\* under output_dir unless it starts with the text of output_dir, and the
\* extension is added unless the path ends with it
ExportPath(output_dir, filepath, extension) ==
    LET placed == IF ~StartsWith(filepath, output_dir)
                  THEN PathJoin(output_dir, filepath)
                  ELSE filepath
    IN  IF ~EndsWith(placed, <<extension>>) THEN placed \o <<extension>> ELSE placed

\* the values output_dir is given: the default and another one
OutputDirs == {<<"outputs">>, <<"results">>}

\* the filepaths handed to the exporter: the names run derives from the
\* competency, with and without extension, and paths with directories
Filepaths ==
    {<<"web">>, <<"web", ".json">>, <<"web", ".md">>,
     <<"outputs", "_for_web">>, <<"outputs", "_for_web", ".json">>,
     <<"outputs", "_for_web", ".md">>,
     <<"outputs", Separator, "web">>, <<"outputs", Separator, "web", ".json">>,
     <<"outputs", Separator, "web", ".md">>,
     <<"sub", Separator, "web">>,
     <<"..", Separator, "web">>,
     <<"outputs", Separator, "..", Separator, "web">>,
     <<Separator, "tmp", Separator, "web">>}

\* exporter.export_json(assessment, validation, filepath) and
\* exporter.export_markdown(assessment, validation, filepath): the file is
\* written and the path returned, or the write raises
CallExport ==
    /\ IsNone(trial)
    /\ \E output_dir \in OutputDirs, filepath \in Filepaths, written \in BOOLEAN :
           \/ trial' = [op |-> "export_json", output_dir |-> output_dir,
                        filepath |-> filepath,
                        result |-> IF written
                                   THEN Ok(ExportPath(output_dir, filepath, ".json"))
                                   ELSE Raise("Exception",
                                              <<"Failed to export JSON to">>)]
           \/ trial' = [op |-> "export_markdown", output_dir |-> output_dir,
                        filepath |-> filepath,
                        result |-> IF written
                                   THEN Ok(ExportPath(output_dir, filepath, ".md"))
                                   ELSE Raise("Exception",
                                              <<"Failed to export Markdown to">>)]
    /\ UNCHANGED run_vars

UnitNext ==
    \/ CallParseResponse
    \/ CallExport
    \/ CallRoundTrip
    \/ CallCallApi
    \/ CallValidateInputs
    \/ CallParseValidationResponse
    \/ CallCompetencyInput
    \/ CallAPCGrid
    \/ CallAPCGridFromDict
    \/ CallScoringRubric
    \/ CallScoringRubricFromDict
    \/ CallValidationResultFromDict
    \/ CallCompetencyInputFromDict

UnitSpec == UnitInit /\ [][UnitNext]_vars

\* the operation called on its own is op
Called(op) == ~IsNone(trial) /\ trial.op = op

\* ------------------------------------------------------------------- claims
Agents == {generator, critic}

\* the agent took a step of its call (an interrupt leaves both agents alone)
GenStep == generator' # generator

CriticStep == critic' # critic

\* the step reads the answer of the service
GenReads == ~IsNone(generator.resp) /\ GenStep

CriticReads == ~IsNone(critic.resp) /\ CriticStep

\* the attempt that reads the answer fails, and it is the last one allowed
GenLastFails ==
    /\ GenReads
    /\ generator.calls = generator.max_retries
    /\ \A now \in Timestamps : ~GenTry(generator.resp, input_data, now).ok

CriticLastFails ==
    /\ CriticReads
    /\ critic.calls = critic.max_retries
    /\ \A now \in Timestamps : ~CriticTry(critic.resp, now).ok

\* C1: one call of generate_assessment or of validate_assessment never makes
\* more than max_retries calls of _call_api.
C1_CallsBounded ==
    \A a \in Agents : a.calls <= a.max_retries

C1_Witness ==
    /\ generator.max_retries = DefaultMaxRetries
    /\ generator.calls = DefaultMaxRetries
    /\ generator.status = "raised"

\* C2: when the last allowed attempt of generate_assessment fails, it raises an
\* error that states the number of attempts made and ends with the cause of
\* that failure, and it returns no AssessmentOutput.
C2_ExhaustionRaises ==
    [][GenLastFails =>
          /\ generator'.status = "raised"
          /\ IsNone(generator'.result)
          /\ StartsWith(generator'.raised,
                 <<"Failed to generate assessment after">>
                 \o Str(generator.calls) \o <<"attempts:">>)
          /\ \E now \in Timestamps :
                 EndsWithTokens(generator'.raised,
                                GenTry(generator.resp, input_data, now).msg)]_vars

C2_Witness ==
    /\ generator.status = "raised"
    /\ generator.calls = DefaultMaxRetries
    /\ generator.raised = <<"Failed to generate assessment after", "3", "attempts:",
                            "API request failed:", "Connection error">>
    /\ IsNone(assessment)

WaitsOf(a) ==
    /\ \A i \in 1..Len(a.sleeps) : a.sleeps[i] = a.initial_retry_delay * Pow2(i - 1)
    /\ Len(a.sleeps) = a.attempt
    /\ a.attempt < a.max_retries \/ a.attempt = 0
    /\ a.status \in {"returned", "raised"} /\ a.calls > 0
           => Len(a.sleeps) = a.calls - 1

\* a wait is between two calls of the same agent: a call comes before it, and
\* the next thing the run does is that agent's next call
WaitsBetweenCalls ==
    \A i \in 1..Len(events) :
        events[i].ev = "sleep" =>
            /\ i > 1 /\ events[i - 1].ev = "call"
            /\ events[i - 1].who = events[i].who
            /\ i < Len(events) =>
                   events[i + 1].ev = "call" /\ events[i + 1].who = events[i].who

\* C4: the wait after failed attempt i (from 0) is initial_retry_delay * 2^i,
\* and a wait happens only when another attempt follows: none after the last
\* attempt, none after a successful one.
C4_Backoff ==
    /\ \A a \in Agents : WaitsOf(a)
    /\ WaitsBetweenCalls

C4_Witness ==
    /\ generator.initial_retry_delay = DefaultInitialRetryDelay
    /\ generator.max_retries = DefaultMaxRetries
    /\ generator.status = "returned"
    /\ generator.sleeps = <<1, 2>>
    /\ critic.max_retries = 4 /\ critic.initial_retry_delay = 3
    /\ critic.status = "returned"
    /\ critic.sleeps = <<3, 6, 12>>

\* C5: a successful attempt ends the loop at once: when the k-th attempt is the
\* first to succeed, k calls and k-1 waits were made, its value is returned,
\* and the call does nothing more.
C5_SuccessEndsLoop ==
    [][/\ GenReads /\ (\E now \in Timestamps :
                           GenTry(generator.resp, input_data, now).ok)
          => /\ generator'.status = "returned"
             /\ generator'.calls = generator.attempt + 1
             /\ Len(generator'.sleeps) = generator.attempt
             /\ \E now \in Timestamps :
                    generator'.result = GenTry(generator.resp, input_data, now).val
       /\ CriticReads /\ (\E now \in Timestamps : CriticTry(critic.resp, now).ok)
          => /\ critic'.status = "returned"
             /\ critic'.calls = critic.attempt + 1
             /\ Len(critic'.sleeps) = critic.attempt
             /\ \E now \in Timestamps :
                    critic'.result = CriticTry(critic.resp, now).val
       /\ generator.status = "returned" => ~GenStep
       /\ critic.status = "returned" => ~CriticStep]_vars

C5_Witness ==
    /\ generator.status = "returned"
    /\ ~IsNone(generator.result)
    /\ generator.calls = 2
    /\ generator.sleeps = <<1>>
    /\ assessment = generator.result

\* generation ended without an AssessmentOutput
GenerationLost ==
    \/ generator.status = "raised"
    \/ generator.status = "returned" /\ IsNone(generator.result)

\* C6: the stages of a run are in order: every validation call comes after
\* generation returned an AssessmentOutput, the one it sends; every export
\* comes after validation returned; and when generation fails there is never a
\* validation call or an export.
C6_StagesOrdered ==
    /\ \A j \in 1..Len(events) :
           /\ events[j].ev = "call" /\ events[j].who = "critic" =>
                  /\ \E i \in 1..(j - 1) : events[i] = End("generator", "return")
                  /\ ~IsNone(generator.result)
                  /\ events[j].prompt = BuildValidationPrompt(generator.result)
           /\ events[j].who = "exporter" =>
                  \E i \in 1..(j - 1) : events[i] = End("critic", "return")
    /\ critic.status # "idle" =>
           generator.status = "returned" /\ assessment = generator.result
    /\ exports # <<>> => critic.status = "returned" /\ ~IsNone(validation)
    /\ GenerationLost =>
           /\ critic.status = "idle" /\ critic.calls = 0 /\ exports = <<>>
           /\ \A j \in 1..Len(events) : events[j].who = "generator"

C6_Witness ==
    /\ pc = "exit"
    /\ exit_code = 0
    /\ generator.calls = 2
    /\ critic.calls = 2
    /\ Len(exports) = 2

\* C7: once generation has succeeded, no outcome of the validation attempts
\* aborts the run: the validation stage ends in the export stage, with the
\* assessment and a ValidationResult, a negative one carrying feedback; only an
\* interrupt of the user ends the run there.  What is exported is that pair.
C7_ValidationNeverAborts ==
    [][/\ pc = "validate" /\ pc' # "validate" =>
              \/ abort' = "interrupt"
              \/ /\ pc' = "export_json"
                 /\ abort' = ""
                 /\ ~IsNone(assessment') /\ assessment' = generator.result
                 /\ ~IsNone(validation')
                 /\ ~validation'.is_valid => ~BlankTokens(validation'.feedback)
                 /\ IsNone(critic.result) \/ critic.status = "raised"
                        => ~validation'.is_valid
                 /\ ~IsNone(critic.result) /\ critic.status = "returned"
                        => validation' = critic.result
       /\ exports' # exports =>
              /\ Len(exports') = Len(exports) + 1
              /\ exports'[Len(exports')].assessment = assessment
              /\ exports'[Len(exports')].validation = validation]_vars

C7_Witness ==
    /\ pc = "export_md"
    /\ Len(exports) = 1
    /\ exports[1].validation = validation
    /\ exports[1].assessment = generator.result
    /\ ~validation.is_valid
    /\ Contains(validation.feedback, <<"could not be completed">>)

\* C8: the process exits with a status other than 0 whenever the run ended in a
\* failure, a failed generation first of all, which ends the run; it ends
\* normally only when the whole pipeline returned.
C8_ExitStatus ==
    /\ pc # "exit" => exit_code = -1
    /\ GenerationLost => pc \in {"generate", "exit"}
    /\ pc = "exit" =>
           /\ exit_code \in {0, 1}
           /\ GenerationLost => exit_code = 1
           /\ abort # "" => exit_code = 1
           /\ exit_code = 0 =>
                  /\ generator.status = "returned" /\ ~IsNone(assessment)
                  /\ critic.status = "returned" /\ ~IsNone(validation)
                  /\ Len(exports) = 2

C8_Witness ==
    /\ pc = "exit"
    /\ generator.status = "raised"
    /\ abort = "generation"
    /\ exit_code = 1

\* the JSON object a response carries, when it stopped normally and its text
\* parses to an object with the three required keys, each an object
CarriesDocument(r) ==
    /\ "candidates" \in DOMAIN r
    /\ r.candidates # <<>>
    /\ r.candidates[1].finish_reason = 1
    /\ LET loaded == JsonLoads(StripFences(r.text))
       IN  /\ loaded.ok
           /\ IsObject(loaded.val)
           /\ {"grid", "situation", "rubric"} \subseteq DOMAIN loaded.val
           /\ \A k \in {"grid", "situation", "rubric"} : IsObject(loaded.val[k])

DocumentOf(r) == JsonLoads(StripFences(r.text)).val

\* the invariants of the data model, read off the document
BreaksInvariant(d) ==
    \/ \E k \in {"nd_criteria", "ni_criteria", "na_criteria"} :
           \/ Len(Get(d.grid, k, <<>>)) < 3
           \/ \E i \in 1..Len(Get(d.grid, k, <<>>)) :
                  Get(d.grid[k][i], "description", "") \in {"", " "}
    \/ Get(d.situation, "instructions", "") \in {"", " "}
    \/ Get(d.situation, "duration", "x") \in {"", " "}
    \/ Get(d.rubric, "total_points", 20) \notin {20, 100}
    \/ \E i \in 1..Len(Get(d.rubric, "criteria_points", <<>>)) :
           d.rubric.criteria_points[i].points <= 0

\* C9: in generation, a response that is valid JSON with the required keys but
\* breaks an invariant of the data model is handled as a transient failure: it
\* uses up one attempt; when attempts remain the loop waits the backoff and
\* stands before a new call; only when none remains is the fatal error raised.
C9_InvariantBreachRetried ==
    [][GenReads /\ CarriesDocument(generator.resp)
          /\ BreaksInvariant(DocumentOf(generator.resp)) =>
          /\ IsNone(generator'.result)
          /\ generator'.calls = generator.calls
          /\ IF generator.attempt < generator.max_retries - 1
             THEN /\ generator'.status = "active"
                  /\ IsNone(generator'.resp)
                  /\ generator'.attempt = generator.attempt + 1
                  /\ generator'.attempt < generator.max_retries
                  /\ generator'.sleeps =
                         Append(generator.sleeps,
                                generator.initial_retry_delay * Pow2(generator.attempt))
             ELSE /\ generator'.status = "raised"
                  /\ generator'.sleeps = generator.sleeps
                  /\ Contains(generator'.raised, <<"Invalid response format:">>)]_vars

C9_Witness ==
    /\ generator.status = "raised"
    /\ generator.max_retries = DefaultMaxRetries
    /\ generator.sleeps = <<1, 2>>
    /\ EndsWithTokens(generator.raised,
           <<"Invalid response format:", "ND level must have at least 3 criteria">>)

\* the response has a candidate and its first candidate stopped normally
StoppedNormally(r) ==
    /\ "candidates" \in DOMAIN r
    /\ r.candidates # <<>>
    /\ r.candidates[1].finish_reason = 1

\* the loop's handling of a failed attempt: a wait and a further attempt when
\* attempts remain, the exhaustion policy otherwise
HandledAsFailure(a, b, exhausted) ==
    IF a.attempt < a.max_retries - 1
    THEN b.status = "active" /\ b.attempt = a.attempt + 1
         /\ Len(b.sleeps) = Len(a.sleeps) + 1
    ELSE exhausted

\* C10: a response is a success only when it has a candidate and the first
\* candidate's completion reason is 1; one with no candidate or with any other
\* reason is a failure of the attempt, retried when attempts remain.
C10_OnlyNormalStopSucceeds ==
    [][/\ GenReads /\ GenCallApi(generator.resp).ok
              => StoppedNormally(generator.resp)
       /\ CriticReads /\ CriticCallApi(critic.resp).ok
              => StoppedNormally(critic.resp)
       /\ GenReads /\ ~StoppedNormally(generator.resp)
              => HandledAsFailure(generator, generator',
                                  generator'.status = "raised")
       /\ CriticReads /\ ~StoppedNormally(critic.resp)
              => HandledAsFailure(critic, critic',
                     /\ critic'.status = "returned"
                     /\ ~critic'.result.is_valid
                     /\ Contains(critic'.result.feedback,
                                 <<"could not be completed">>))]_vars

C10_Witness ==
    /\ generator.status = "returned"
    /\ generator.calls = 3
    /\ ~IsNone(critic.result)
    /\ EndsWithTokens(critic.result.feedback,
           <<"Response incomplete:", "SAFETY - Response blocked by safety filters">>)

\* C11: for every JSON payload, the text that wraps it in a fence tagged json
\* and the bare payload parse to the same result, in _parse_response and in
\* _parse_validation_response: both succeed with equal values or both fail.
C11_FencedJsonParsesAsBare ==
    /\ Called("_parse_response") =>
           \A d \in TrialGenDocs :
               trial.api_response = FencedJson(d) =>
                   LET bare == ParseResponse(Bare(d), trial.input_data, trial.now)
                   IN  /\ trial.result.ok = bare.ok
                       /\ bare.ok => trial.result.val = bare.val
    /\ Called("_parse_validation_response") =>
           \A d \in TrialCriticDocs :
               trial.api_response = FencedJson(d) =>
                   LET bare == ParseValidationResponse(Bare(d), trial.now)
                   IN  /\ trial.result.ok = bare.ok
                       /\ bare.ok => trial.result.val = bare.val

C11_Witness ==
    /\ Called("_parse_response")
    /\ trial.api_response = FencedJson(GoodDoc)
    /\ trial.result.ok
    /\ trial.result.val.rubric.total_points = 20
    /\ Len(trial.result.val.grid.na_criteria) = 3

\* the call parsed the text as it parses the bare document d
ParsesLikeBare(d) ==
    LET bare == IF trial.op = "_parse_response"
                THEN ParseResponse(Bare(d), trial.input_data, trial.now)
                ELSE ParseValidationResponse(Bare(d), trial.now)
    IN  /\ trial.result.ok = bare.ok
        /\ bare.ok => trial.result.val = bare.val
        /\ ~bare.ok => trial.result.msg = bare.msg

TrialDocs == TrialGenDocs \cup TrialCriticDocs

CalledParser == Called("_parse_response") \/ Called("_parse_validation_response")

\* C12 as stated: a leading fence is stripped whatever language tag it carries
\* (none, json or any other) and a trailing fence is stripped, so that the
\* fenced payload parses like the bare payload.
C12_AnyTagStripped ==
    CalledParser =>
        \A d \in TrialDocs :
            trial.api_response \in StrippedForms(d) \cup {FencedAs(OtherTag, d)}
                => ParsesLikeBare(d)

\* C12, amended: a leading fence with no language tag or with the tag json is
\* stripped, and a trailing fence is stripped, with or without whitespace
\* around the text, so that such a fenced payload parses like the bare payload.
C12_JsonOrNoTagStripped ==
    CalledParser =>
        \A d \in TrialDocs :
            trial.api_response \in StrippedForms(d) => ParsesLikeBare(d)

C12_Witness ==
    /\ Called("_parse_validation_response")
    /\ trial.api_response = Padded(Fenced(GoodVerdict))
    /\ trial.result.ok
    /\ trial.result.val.is_valid
    /\ trial.result.val.feedback = <<"fine">>

\* the forms in which the document d reaches json.loads whole
FormsOf(d) == {Bare(d)} \cup StrippedForms(d)

\* the required top-level keys of the two kinds of response
RequiredKeys(op) ==
    IF op = "_parse_response" THEN {"grid", "situation", "rubric"} ELSE {"is_valid"}

\* C13: a parsed mapping that lacks a required top-level key (grid, situation
\* or rubric in generation, is_valid in validation) makes the parser fail with
\* the error of a missing field, whose message names a key that is missing.
C13_MissingKeyNamed ==
    CalledParser =>
        \A d \in TrialDocs :
            /\ trial.api_response \in FormsOf(d)
            /\ IsObject(d)
            /\ RequiredKeys(trial.op) \ DOMAIN d # {}
            => /\ ~trial.result.ok
               /\ \E k \in RequiredKeys(trial.op) \ DOMAIN d :
                      trial.result.msg =
                          IF trial.op = "_parse_response"
                          THEN <<"Invalid response format:", "Missing", k,
                                 "in response">>
                          ELSE <<"Invalid validation response format:", "Missing",
                                 k, "in validation response">>

C13_Witness ==
    /\ Called("_parse_response")
    /\ trial.api_response =
           Bare([situation |-> EmptyObject, rubric |-> EmptyObject])
    /\ ~trial.result.ok
    /\ Contains(trial.result.msg, <<"Missing", "grid">>)

\* C14: a response text that is empty once its whitespace is trimmed, the
\* empty text and a text of whitespace only, is reported as the empty response
\* error, not as the error of a text that fails to parse.
C14_EmptyAfterTrimming ==
    CalledParser /\ Strip(trial.api_response) = <<>> =>
        /\ ~trial.result.ok
        /\ trial.result.msg =
               IF trial.op = "_parse_response"
               THEN <<"Invalid response format:", "Empty response from API">>
               ELSE <<"Invalid validation response format:",
                      "Empty response from validation API">>

\* the reply of the service stopped normally and is a JSON object that says
\* is_valid false with a feedback that is absent, empty or blank
NegativeWithoutFeedback(r) ==
    /\ StoppedNormally(r)
    /\ LET loaded == JsonLoads(StripFences(r.text))
       IN  /\ loaded.ok
           /\ IsObject(loaded.val)
           /\ "is_valid" \in DOMAIN loaded.val
           /\ loaded.val.is_valid = FALSE
           /\ \/ "feedback" \notin DOMAIN loaded.val
              \/ loaded.val.feedback \in {<<>>, <<"">>, <<" ">>}

\* C15: every ValidationResult that validate_assessment returns has a
\* non-blank feedback when its is_valid is false; a reply that says is_valid
\* false with a blank or absent feedback is never returned as it is: it is a
\* failed attempt, retried or, with no attempt left, replaced by the degraded
\* result.
C15_NegativeVerdictHasFeedback ==
    [][/\ CriticStep /\ critic'.status = "returned" /\ ~IsNone(critic'.result)
          => (~critic'.result.is_valid => ~BlankTokens(critic'.result.feedback))
       /\ CriticReads /\ NegativeWithoutFeedback(critic.resp)
          => HandledAsFailure(critic, critic',
                 /\ critic'.status = "returned"
                 /\ ~critic'.result.is_valid
                 /\ Contains(critic'.result.feedback,
                        <<"could not be completed", "due to API error:",
                          "Invalid validation response format:",
                          "Feedback must be provided when validation fails">>))
      ]_vars

C15_Witness ==
    /\ critic.status = "returned"
    /\ critic.calls = 2
    /\ critic.sleeps = <<1>>
    /\ ~IsNone(critic.result)
    /\ ~critic.result.is_valid
    /\ EndsWithTokens(critic.result.feedback,
           <<"Invalid validation response format:",
             "Feedback must be provided when validation fails">>)

\* the document has the three required objects and exactly 3 criteria in each
\* of the three tiers, and breaks no rule of the data model
ThreePerTier(d) ==
    /\ IsObject(d)
    /\ {"grid", "situation", "rubric"} \subseteq DOMAIN d
    /\ \A k \in {"grid", "situation", "rubric"} : IsObject(d[k])
    /\ \A k \in Tiers : k \in DOMAIN d.grid /\ Len(d.grid[k]) = 3
    /\ ~BreaksInvariant(d)

\* C16: for a response whose JSON has exactly 3 criteria in each of the three
\* tiers and is otherwise valid, _parse_response gives an AssessmentOutput with
\* exactly 3 criteria in each tier: those of the response, in its order, each
\* in its own tier.
C16_ThreeCriteriaPerTier ==
    Called("_parse_response") =>
        \A d \in TrialGenDocs :
            trial.api_response \in FormsOf(d) /\ ThreePerTier(d) =>
                /\ trial.result.ok
                /\ \A k \in Tiers :
                       /\ Len(trial.result.val.grid[k]) = 3
                       /\ \A i \in 1..3 :
                              /\ trial.result.val.grid[k][i].description
                                     = d.grid[k][i].description
                              /\ trial.result.val.grid[k][i].indicators
                                     = Get(d.grid[k][i], "indicators", <<>>)
                              /\ trial.result.val.grid[k][i].points
                                     = Get(d.grid[k][i], "points", 0)

C16_Witness ==
    /\ Called("_parse_response")
    /\ trial.api_response = Bare(GoodDoc)
    /\ trial.result.ok
    /\ [i \in 1..3 |-> trial.result.val.grid.nd_criteria[i].description]
           = <<"nd1", "nd2", "nd3">>
    /\ [i \in 1..3 |-> trial.result.val.grid.ni_criteria[i].description]
           = <<"ni1", "ni2", "ni3">>
    /\ [i \in 1..3 |-> trial.result.val.grid.na_criteria[i].description]
           = <<"na1", "na2", "na3">>

\* C17: constructing an APCGrid fails whenever one of the three tiers has
\* fewer than 3 criteria and succeeds when all three have at least 3; neither
\* the constructor nor from_dict returns a grid with a tier of fewer than 3.
C17_GridNeedsThreePerTier ==
    /\ Called("APCGrid") =>
           /\ trial.result.ok <=> \A k \in Tiers : Len(trial.args[k]) >= 3
           /\ trial.result.ok => trial.result.val = trial.args
    /\ Called("APCGrid.from_dict") =>
           /\ trial.result.ok => \A k \in Tiers : Len(trial.result.val[k]) >= 3
           /\ (\E k \in Tiers : Len(Get(trial.data, k, <<>>)) < 3)
                  => ~trial.result.ok

C17_Witness ==
    /\ Called("APCGrid")
    /\ Len(trial.args.nd_criteria) = 3
    /\ Len(trial.args.ni_criteria) = 4
    /\ Len(trial.args.na_criteria) = 2
    /\ trial.result = Raise("ValueError", <<"NA level must have at least 3 criteria">>)

\* C18: constructing a ScoringRubric succeeds only if total_points is 20 or
\* 100 and every value of criteria_points is greater than 0; any other total
\* (15, for one) or any points value <= 0 makes the construction fail.
C18_RubricTotalsAndPoints ==
    Called("ScoringRubric") =>
        /\ trial.result.ok <=>
               /\ trial.args.total_points \in {20, 100}
               /\ \A i \in 1..Len(trial.args.criteria_points) :
                      trial.args.criteria_points[i].points > 0
        /\ trial.result.ok => trial.result.val = trial.args

C18_Witness ==
    /\ Called("ScoringRubric")
    /\ trial.args.total_points = 15
    /\ trial.args.criteria_points # <<>>
    /\ trial.result = Raise("ValueError", <<"Total points must be either 20 or 100">>)

\* C19: constructing a CompetencyInput succeeds exactly when competency,
\* niveau, parcours, specialite and duree are each non-blank after trimming;
\* element may be blank.
C19_CompetencyInputRequired ==
    Called("CompetencyInput") =>
        /\ trial.result.ok <=>
               \A k \in {"competency", "niveau", "parcours", "specialite", "duree"} :
                   trial.args[k] \notin {"", " "}
        /\ trial.result.ok =>
               \A k \in CompetencyFields : trial.result.val[k] = trial.args[k]

C19_Witness ==
    /\ Called("CompetencyInput")
    /\ trial.args.element = " "
    /\ \A k \in CompetencyFields \ {"element"} : trial.args[k] = "x"
    /\ trial.result.ok

CalledFromDict ==
    \/ Called("APCGrid.from_dict") \/ Called("ScoringRubric.from_dict")
    \/ Called("ValidationResult.from_dict") \/ Called("CompetencyInput.from_dict")

\* the mapping handed to from_dict
TrialData ==
    IF trial.op = "ScoringRubric.from_dict"
    THEN RubricDict(trial.keys, trial.total, trial.nd_null, trial.na_null,
                    trial.points)
    ELSE trial.data

\* the criteria of a tier of the mapping, each constructed on its own
CriteriaOf(data, k) == CriteriaFromList(Get(data, k, <<>>))

\* the direct construction of the entity from the field values of the mapping
\* handed to from_dict, an absent key standing for the default of from_dict
DirectConstruction ==
    LET data == TrialData
    IN  CASE trial.op = "APCGrid.from_dict" ->
                 IF \E k \in Tiers : ~CriteriaOf(data, k).ok
                 THEN CriteriaOf(data,
                          IF ~CriteriaOf(data, "nd_criteria").ok THEN "nd_criteria"
                          ELSE IF ~CriteriaOf(data, "ni_criteria").ok
                          THEN "ni_criteria" ELSE "na_criteria")
                 ELSE NewAPCGrid(CriteriaOf(data, "nd_criteria").val,
                                 CriteriaOf(data, "ni_criteria").val,
                                 CriteriaOf(data, "na_criteria").val)
          [] trial.op = "ScoringRubric.from_dict" ->
                 NewScoringRubric(Get(data, "total_points", 0),
                                  Get(data, "nd_range", <<0, 0>>),
                                  Get(data, "ni_range", <<0, 0>>),
                                  Get(data, "na_range", <<0, 0>>),
                                  Get(data, "criteria_points", <<>>))
          [] trial.op = "ValidationResult.from_dict" ->
                 NewValidationResult(Get(data, "is_valid", FALSE),
                                     Get(data, "alignment_score", ""),
                                     Get(data, "observability_issues", <<>>),
                                     Get(data, "coherence_issues", <<>>),
                                     Get(data, "feedback", <<>>),
                                     Get(data, "validated_at", ""), trial.now)
          [] trial.op = "CompetencyInput.from_dict" ->
                 NewCompetencyInput(Get(data, "competency", ""),
                                    Get(data, "element", ""),
                                    Get(data, "niveau", ""),
                                    Get(data, "parcours", ""),
                                    Get(data, "specialite", ""),
                                    Get(data, "duree", ""))

\* C20 as stated: for every entity and every mapping, from_dict fails exactly
\* when the direct construction from the same field values fails, and with the
\* same error.
C20_FromDictFailsExactlyAsConstructor ==
    CalledFromDict =>
        /\ trial.result.ok = DirectConstruction.ok
        /\ ~DirectConstruction.ok => trial.result = DirectConstruction

\* C20, amended: from_dict never returns an instance that the validating
\* constructor would reject, and it fails whenever the direct construction
\* from the same field values fails, with the same error unless a conversion
\* it makes before the constructor runs (tuple() of a range) fails first; that
\* conversion also makes it fail where the constructor accepts the values.
C20_FromDictValidates ==
    CalledFromDict =>
        /\ trial.result.ok => DirectConstruction.ok
        /\ ~DirectConstruction.ok =>
               /\ ~trial.result.ok
               /\ trial.result = DirectConstruction \/ trial.result.type = "TypeError"
        /\ ~trial.result.ok /\ DirectConstruction.ok =>
               /\ trial.op = "ScoringRubric.from_dict"
               /\ trial.result.type = "TypeError"
               /\ \E k \in {"nd_range", "ni_range", "na_range"} :
                      k \in DOMAIN TrialData /\ TrialData[k] = JNull

C20_Witness ==
    /\ Called("APCGrid.from_dict")
    /\ DOMAIN trial.data = {"nd_criteria", "ni_criteria"}
    /\ Len(trial.data.nd_criteria) = 3
    /\ Len(trial.data.ni_criteria) = 3
    /\ trial.result = Raise("ValueError", <<"NA level must have at least 3 criteria">>)

\* the fields below a top-level key that the claim counts as required
RequiredFields ==
    [grid |-> {"nd_criteria", "ni_criteria", "na_criteria"},
     situation |-> {"instructions", "duration"},
     rubric |-> {"total_points", "nd_range", "ni_range", "na_range",
                 "criteria_points"}]

\* the document d of the operation op lacks a field other than element, task,
\* context and alignment_score
LacksRequiredField(op, d) ==
    IF op = "_parse_response"
    THEN \/ RequiredKeys(op) \ DOMAIN d # {}
         \/ \E part \in DOMAIN d \cap DOMAIN RequiredFields :
                /\ IsObject(d[part])
                /\ RequiredFields[part] \ DOMAIN d[part] # {}
    ELSE {"is_valid", "observability_issues", "coherence_issues", "feedback"}
             \ DOMAIN d # {}

\* C21: a document that lacks a required field, any field but element, task,
\* context and alignment_score, is rejected by the parser and not given a
\* default: a rubric without total_points or a situation without duration
\* makes the attempt fail.
C21_AbsentFieldRejected ==
    CalledParser =>
        \A d \in TrialDocs :
            /\ trial.api_response \in FormsOf(d)
            /\ IsObject(d)
            /\ LacksRequiredField(trial.op, d)
            => ~trial.result.ok

\* the sum of the values of criteria_points
RECURSIVE SumPoints(_)
SumPoints(criteria_points) ==
    IF criteria_points = <<>> THEN 0
    ELSE Head(criteria_points).points + SumPoints(Tail(criteria_points))

\* C22: in every ScoringRubric that generation accepts, the values of
\* criteria_points sum to total_points.
C22_PointsSumToTotal ==
    ~IsNone(assessment) =>
        SumPoints(assessment.rubric.criteria_points)
            = assessment.rubric.total_points

\* C23: validation and export only read the assessment: while and after
\* validate_assessment, export_json and export_markdown run, with any number
\* of validation retries, the assessment is the value generate_assessment
\* returned, field for field, and each export wrote that value.
C23_AssessmentReadOnly ==
    /\ ~IsNone(assessment) =>
           /\ generator.status = "returned"
           /\ assessment = generator.result
    /\ \A i \in DOMAIN exports : exports[i].assessment = generator.result

C23_Witness ==
    /\ pc = "exit"
    /\ exit_code = 0
    /\ Len(exports) = 2
    /\ Len(critic.sleeps) >= 2
    /\ ~IsNone(assessment)
    /\ assessment.generated_at = "T1"

\* the mapping handed to validate_inputs has each required field present,
\* true and not blank once str(value) is trimmed
RequiredPresent(data) ==
    \A i \in DOMAIN RequiredInputFields :
        /\ RequiredInputFields[i] \in DOMAIN data
        /\ Truthy(data[RequiredInputFields[i]])
        /\ ~Blank(data[RequiredInputFields[i]].text)

\* a required field of the mapping holds a value that is not a text and not
\* false
HoldsNonText(data) ==
    \E i \in DOMAIN RequiredInputFields :
        /\ RequiredInputFields[i] \in DOMAIN data
        /\ data[RequiredInputFields[i]].kind # "text"
        /\ Truthy(data[RequiredInputFields[i]])

\* C24 as stated: validate_inputs returns True exactly when the five required
\* fields are present and not blank after trimming, element ignored, which is
\* exactly when CompetencyInput.from_dict of the same mapping succeeds.
C24_ValidateIffFromDict ==
    Called("validate_inputs") =>
        /\ trial.result.val <=> RequiredPresent(trial.data)
        /\ trial.result.val <=> CompetencyInputFromValues(trial.data).ok

\* C24, amended: validate_inputs returns True exactly when the five required
\* fields are present and not blank after trimming, element ignored; on a
\* mapping whose required values are texts, null or absent this is exactly
\* when CompetencyInput.from_dict of the same mapping succeeds, and from_dict
\* never succeeds where validate_inputs returns False; a required value that
\* is not a text and not false (a number) passes validate_inputs while
\* from_dict fails on it with an AttributeError.
C24_ValidateIffFromDictOnTexts ==
    Called("validate_inputs") =>
        LET made == CompetencyInputFromValues(trial.data)
        IN  /\ trial.result.val <=> RequiredPresent(trial.data)
            /\ made.ok => trial.result.val
            /\ ~HoldsNonText(trial.data) => (trial.result.val <=> made.ok)
            /\ trial.result.val /\ ~made.ok =>
                   HoldsNonText(trial.data) /\ made.type = "AttributeError"

C24_Witness ==
    /\ Called("validate_inputs")
    /\ DOMAIN trial.data = CompetencyFields \ {"element"}
    /\ \A k \in DOMAIN trial.data : trial.data[k] = TextValue("x")
    /\ trial.result.val
    /\ CompetencyInputFromValues(trial.data).ok

\* what went wrong inside _call_api with the answer r, as a text: the
\* transport's own message, the note of a response without candidate, or the
\* note of a completion reason other than the normal stop; no text when
\* nothing went wrong
CauseOf(r) ==
    IF "error" \in DOMAIN r THEN r.error
    ELSE IF r.candidates = <<>> THEN <<"Response was blocked or empty">>
    ELSE IF r.candidates[1].finish_reason # FinishReasonStop
    THEN <<"Response incomplete:">>
    ELSE <<>>

\* C25: every failure inside _call_api, an exception of the transport, a
\* response without candidate or a completion reason other than the normal
\* stop, leaves _call_api as an exception whose message holds "API request
\* failed" followed by the cause; in none of these cases does _call_api return
\* a text, and when it returns one it is the text of a response that stopped
\* normally.
C25_CallApiFailuresWrapped ==
    Called("_call_api") =>
        LET r == trial.response
            cause == CauseOf(r)
        IN  /\ cause # <<>> =>
                   /\ ~trial.result.ok
                   /\ trial.result.type = "Exception"
                   /\ Contains(trial.result.msg, <<"API request failed:">> \o cause)
                   /\ "error" \in DOMAIN r =>
                          EndsWithTokens(trial.result.msg, r.error)
            /\ trial.result.ok =>
                   /\ StoppedNormally(r)
                   /\ trial.result.val = r.text

C25_Witness ==
    /\ Called("_call_api")
    /\ trial.agent = "critic"
    /\ "candidates" \in DOMAIN trial.response
    /\ trial.response.candidates = <<[finish_reason |-> 3], [finish_reason |-> 1]>>
    /\ trial.result = Raise("Exception",
           <<"Validation", "API request failed:", "Response incomplete:",
             "SAFETY - Response blocked by safety filters">>)

\* C26: whatever non-negative max_retries an agent has, generate_assessment
\* makes at least one attempt and ends by returning an AssessmentOutput or by
\* raising, and validate_assessment makes at least one attempt and ends by
\* returning a ValidationResult: neither ends by returning no value.
C26_NeverReturnsNothing ==
    /\ generator.status \in {"returned", "raised"} => generator.calls >= 1
    /\ generator.status = "returned" => ~IsNone(generator.result)
    /\ critic.status # "raised"
    /\ critic.status = "returned" =>
           critic.calls >= 1 /\ ~IsNone(critic.result)

\* the AssessmentOutput a satisfies every invariant of the data model
SatisfiesInvariants(a) ==
    /\ \A tier \in {a.grid.nd_criteria, a.grid.ni_criteria, a.grid.na_criteria} :
           /\ Len(tier) >= MinCriteria
           /\ \A i \in DOMAIN tier : ~Blank(tier[i].description)
    /\ ~Blank(a.situation.instructions)
    /\ ~Blank(a.situation.duration)
    /\ a.rubric.total_points \in {20, 100}
    /\ \A i \in DOMAIN a.rubric.criteria_points :
           a.rubric.criteria_points[i].points > 0
    /\ a.generated_at \in Timestamps

\* C27: every AssessmentOutput that reaches the export stage, and every one an
\* export wrote, satisfies all the invariants of the data model at once: at
\* least 3 criteria in each tier, each with a non-blank description,
\* non-blank instructions and duration, total_points 20 or 100, every
\* criteria_points value above 0, and generated_at set.
C27_ExportedSatisfiesInvariants ==
    /\ pc \in {"export_json", "export_md"} =>
           ~IsNone(assessment) /\ SatisfiesInvariants(assessment)
    /\ \A i \in DOMAIN exports :
           /\ ~IsNone(exports[i].assessment)
           /\ SatisfiesInvariants(exports[i].assessment)

C27_Witness ==
    /\ pc = "export_md"
    /\ Len(exports) = 1
    /\ Len(exports[1].assessment.grid.nd_criteria) = 4
    /\ exports[1].assessment.rubric.total_points = 100
    /\ exports[1].assessment.situation.duration = "2h"
    /\ Len(generator.sleeps) >= 1

\* the call is a round trip through to_dict and from_dict
CalledRoundTrip ==
    \/ Called("AssessmentOutput.from_dict(a.to_dict())")
    \/ Called("ValidationResult.from_dict(v.to_dict())")

\* C28: serialisation round-trips: AssessmentOutput.from_dict(a.to_dict())
\* succeeds and equals a, generated_at and the three point ranges included,
\* and ValidationResult.from_dict(v.to_dict()) succeeds and equals v; to_dict
\* holds every field, the ranges as lists.
C28_RoundTrip ==
    CalledRoundTrip =>
        /\ trial.result.ok
        /\ trial.result.val = trial.instance
        /\ Called("AssessmentOutput.from_dict(a.to_dict())") =>
               /\ trial.data.generated_at = trial.instance.generated_at
               /\ trial.data.rubric.nd_range = trial.instance.rubric.nd_range.tuple
               /\ trial.result.val.rubric.nd_range
                      = TupleValue(trial.data.rubric.nd_range)

C28_Witness ==
    /\ Called("AssessmentOutput.from_dict(a.to_dict())")
    /\ trial.instance.generated_at = "T1"
    /\ trial.now = "T2"
    /\ trial.instance.rubric.na_range = TupleValue(<<14, 20>>)
    /\ trial.data.rubric.na_range = <<14, 20>>
    /\ Len(trial.instance.grid.nd_criteria) = 4
    /\ trial.result = Ok(trial.instance)

\* the step sends a prompt to the service
SendsPrompt == Len(events') = Len(events) + 1 /\ events'[Len(events')].ev = "call"

\* C29: retries do not change what is asked: the prompt is built once per
\* call of generate_assessment or validate_assessment, each attempt sends that
\* same prompt, and no step of the call, a failed attempt included, changes
\* the CompetencyInput, the AssessmentOutput or the agent's max_retries and
\* initial_retry_delay.
C29_RetriesAskTheSame ==
    [][/\ generator.status = "active" =>
              /\ generator'.prompt = generator.prompt
              /\ generator'.max_retries = generator.max_retries
              /\ generator'.initial_retry_delay = generator.initial_retry_delay
              /\ input_data' = input_data
              /\ SendsPrompt =>
                     events'[Len(events')]
                         = Call("generator", BuildPrompt(input_data))
       /\ critic.status = "active" =>
              /\ critic'.prompt = critic.prompt
              /\ critic'.max_retries = critic.max_retries
              /\ critic'.initial_retry_delay = critic.initial_retry_delay
              /\ assessment' = assessment
              /\ input_data' = input_data
              /\ SendsPrompt =>
                     events'[Len(events')]
                         = Call("critic", BuildValidationPrompt(assessment))]_vars

C29_Witness ==
    /\ generator.status = "returned"
    /\ Len(generator.sleeps) = 2
    /\ events[1] = Call("generator", BuildPrompt(input_data))
    /\ events[2].ev = "sleep"
    /\ events[3] = events[1]
    /\ events[5] = events[1]
    /\ critic.status = "active"
    /\ Len(critic.sleeps) = 1
    /\ critic.calls = 2

\* how deep below the directory it starts in the relative path rest ends,
\* from the depth n; -1 once it has left that directory
RECURSIVE DepthAfter(_, _)
DepthAfter(rest, n) ==
    IF n < 0 THEN -1
    ELSE IF rest = <<>> THEN n
    ELSE IF Head(rest) = ".." THEN DepthAfter(Tail(rest), n - 1)
    ELSE IF Head(rest) \in {Separator, ".json", ".md"} THEN DepthAfter(Tail(rest), n)
    ELSE DepthAfter(Tail(rest), n + 1)

\* the path names a file inside the directory dir
InsideDirectory(path, dir) ==
    /\ StartsWith(path, dir \o <<Separator>>)
    /\ DepthAfter(SubSeq(path, Len(dir) + 2, Len(path)), 0) >= 1

CalledExport == Called("export_json") \/ Called("export_markdown")

\* C30: export_json returns a path that ends in ".json" and export_markdown
\* one that ends in ".md", the extension being added only when the filepath
\* lacks it, and for every filepath given the returned path lies inside the
\* configured output directory.
C30_ExportPathInsideOutputDir ==
    CalledExport /\ trial.result.ok =>
        LET extension == IF trial.op = "export_json" THEN ".json" ELSE ".md"
            path == trial.result.val
        IN  /\ EndsWith(path, <<extension>>)
            /\ EndsWith(trial.filepath, <<extension>>) =>
                   EndsWith(path, trial.filepath)
            /\ ~EndsWith(trial.filepath, <<extension>>) =>
                   EndsWith(path, trial.filepath \o <<extension>>)
            /\ InsideDirectory(path, trial.output_dir)

====
